---- MODULE Spec2Model ----
(***************************************************************************)
(* Model of the vibe task scheduler: the file-backed task queue            *)
(* (src/vibe/task.py), the worker loop (src/vibe/worker.py), the process   *)
(* poll loop (src/vibe/manager.py) and the approval gate                   *)
(* (src/vibe/approval.py).                                                 *)
(*                                                                         *)
(* The file system is a function from paths to file contents; its DOMAIN   *)
(* is the set of files that exist.  A content is a sequence of lines; a    *)
(* line records its kind, its text, and the value of the retry marker      *)
(* "<!-- RETRY: n -->" that occurs in it (-1 when none occurs).            *)
(***************************************************************************)
EXTENDS Integers, Sequences, FiniteSets, TLC

\* ---------------------------------------------------------------- bounds
\* agent invocations in one behaviour
MaxCalls == 3
\* environment events in one behaviour: crashes, I/O errors, retry_failed runs
MaxEvents == 1
\* the largest max_retries configured
MaxRetriesBound == 2
\* stdout lines of one child
MaxLines == 2
MaxPending == 2

\* worker ids w0, w1 and task stems 001, 002
Workers == {0, 1}
Names == {1, 2}

\* ---------------------------------------------------------------- paths
\* pending  tasks/<stem>.md
PendPath(n) == [d |-> "tasks", ts |-> -1, stem |-> n, w |-> -1]
\* running  tasks/<stem>.md.running.w<id>
RunPath(n, w) == [d |-> "tasks", ts |-> -1, stem |-> n, w |-> w]
\* done     tasks/done/<timestamp>_<stem>.md
DonePath(t, n) == [d |-> "done", ts |-> t, stem |-> n, w |-> -1]
\* failed   tasks/failed/<timestamp>_<stem>.md
FailPath(t, n) == [d |-> "failed", ts |-> t, stem |-> n, w |-> -1]

IsPending(p) == p.d = "tasks" /\ p.w = -1
IsRunning(p) == p.d = "tasks" /\ p.w # -1
IsDone(p) == p.d = "done"
IsFailed(p) == p.d = "failed"

\* ---------------------------------------------------------------- file system primitives
Exists(f, p) == p \in DOMAIN f

WriteFile(f, p, c) == [q \in DOMAIN f \cup {p} |-> IF q = p THEN c ELSE f[q]]

Unlink(f, p) == [q \in DOMAIN f \ {p} |-> f[q]]

\* rename(2)/os.replace: the destination is replaced when it exists
Rename(f, src, dst) ==
    [q \in (DOMAIN f \ {src}) \cup {dst} |-> IF q = dst THEN f[src] ELSE f[q]]

\* ---------------------------------------------------------------- content
Line(k, t, m, a, b) == [k |-> k, t |-> t, m |-> m, a |-> a, b |-> b]
TextLine(t, m) == Line("text", t, m, 0, 0)
RetryLine(c) == Line("RETRY", "", c, 0, 0)
FailedLine == Line("FAILED", "", -1, 0, 0)
FinalLine == Line("FINAL FAILURE", "", -1, 0, 0)
ErrorLine(e) == Line("Error", e.t, e.m, 0, 0)
\* "<!-- Error: {error} -->": an error text of several lines puts its first
\* line behind the prefix and the rest, up to " -->", on lines of their own
ErrorLines(e) ==
    IF e.ml THEN <<ErrorLine(e), Line("text", "error tail", -1, 0, 0)>> ELSE <<ErrorLine(e)>>
ExhaustedLine(a, b) == Line("Retries exhausted", "", -1, a, b)

Marked(content) == {i \in 1..Len(content) : content[i].m # -1}

Min(S) == CHOOSE x \in S : \A y \in S : x <= y

\* _RETRY_PATTERN.search: the first marker of the content, 0 when there is none
_extract_retry_count(content) ==
    IF Marked(content) = {} THEN 0 ELSE content[Min(Marked(content))].m

keep_retry_count(content, count) == content

\* _RETRY_PATTERN.sub replaces every marker; without one the marker line is prepended
_set_retry_count(content, count) ==
    IF Marked(content) # {}
    THEN [i \in 1..Len(content) |->
            IF i \in Marked(content) THEN [content[i] EXCEPT !.m = count] ELSE content[i]]
    ELSE <<RetryLine(count)>> \o content

\* the lines retry_failed drops: those that start with one of _comment_prefixes
_comment_prefixes == {"RETRY", "FAILED", "FINAL FAILURE", "Error", "Retries exhausted"}

IsBodyLine(l) == l.k \notin _comment_prefixes

\* clean_lines: the lines that start with none of the prefixes, in order
clean_lines(c) ==
    LET F[i \in 0..Len(c)] ==
            IF i = 0 THEN <<>>
            ELSE IF IsBodyLine(c[i]) THEN Append(F[i - 1], c[i]) ELSE F[i - 1]
    IN F[Len(c)]

IsBlank(l) == l.k = "text" /\ l.t = ""

\* str.strip() on the joined lines: leading and trailing blank lines go
strip(c) ==
    LET kept == {i \in 1..Len(c) : ~IsBlank(c[i])}
    IN IF kept = {} THEN <<>>
       ELSE SubSeq(c, CHOOSE i \in kept : \A j \in kept : i <= j,
                      CHOOSE i \in kept : \A j \in kept : i >= j)

\* "\n".join(clean_lines).strip() + "\n"
clean_content(c) == strip(clean_lines(c))

\* a file of more than _MAX_TASK_FILE_SIZE bytes carries the text "huge"
Oversized(c) == \E i \in 1..Len(c) : c[i].t = "huge"

\* running_path.read_text(encoding="utf-8") raises UnicodeDecodeError
Undecodable(c) == \E i \in 1..Len(c) : c[i].t = "not utf-8"

\* ---------------------------------------------------------------- inputs
NoError == [t |-> "", m |-> -1, ml |-> FALSE]
ErrBroke == [t |-> "broke", m |-> -1, ml |-> FALSE]
\* stderr is free text and may itself contain a retry marker
ErrMarker == [t |-> "stderr", m |-> 0, ml |-> FALSE]
\* stderr_text joins the lines of stderr with "\n"
ErrLines == [t |-> "stderr line 1", m |-> -1, ml |-> TRUE]
ErrTimeout == [t |-> "timeout", m |-> -1, ml |-> FALSE]
ErrInterrupted == [t |-> "interrupted", m |-> -1, ml |-> FALSE]
ErrApprovalTimeout == [t |-> "approval timeout", m |-> -1, ml |-> FALSE]
ErrRejected == [t |-> "user rejected plan", m |-> -1, ml |-> FALSE]

Outcome(ok, e) == [success |-> ok, error |-> e, approved |-> FALSE]
\* the child is still running at the deadline: _run_claude kills it and
\* returns the timeout result
Hangs == Outcome(FALSE, ErrTimeout)
Success == Outcome(TRUE, NoError)

Body == <<TextLine("body", -1)>>
Retried1 == <<RetryLine(1)>> \o Body
\* a body that starts with an empty line
BlankLed == <<TextLine("", -1)>> \o Body
\* a file of more than _MAX_TASK_FILE_SIZE bytes
Huge == <<TextLine("huge", -1)>>
\* a file that is not valid UTF-8
Garbled == <<TextLine("not utf-8", -1)>>

NoTask == [name |-> 0, content |-> <<>>, retries |-> 0]
NoResult == Outcome(FALSE, NoError)
RfOff == [pc |-> "off", todo |-> {}, src |-> FailPath(0, 0), retried |-> <<>>, name |-> 0]
RrOff == [pc |-> "off", todo |-> <<>>, ex |-> FALSE, count |-> 0,
          last |-> RunPath(0, 0), how |-> ""]
ProcOff == [pc |-> "off"]
RepoOff == [pc |-> "off"]
SchedOff == [pc |-> "off"]
CalcOff == [pc |-> "off"]

VARIABLES
    fs,           \* the files under tasks/, tasks/done/, tasks/failed/
    fs0,          \* the task directory at start
    shutdown,     \* worker.shutdown_event
    max_retries,  \* Config.max_retries
    max_workers,  \* Config.max_workers
    mode,         \* "direct", "plan" (plan_mode) or "approval" (plan_mode, no auto approve)
    agent,        \* the results the child process can end with
    pc, task, result,   \* per worker: position, claimed Task, TaskResult
    calls,        \* agent invocations so far
    budget,       \* environment events left
    hist,         \* the kinds of environment events that have happened
    rf, rr,       \* a retry_failed / recover_running call in progress
    store, decision, event,  \* ApprovalStore._items and each record's decision / _event
    proc,         \* one call of _run_claude: the child process and the poll loop
    repo,         \* the source repository, its worktrees and the merges of a run
    sched,        \* run_loop: preconditions, polling, workers started
    calc          \* the arguments and the result of a pure function under check

vars == <<fs, fs0, shutdown, max_retries, max_workers, mode, agent,
          pc, task, result, calls, budget, hist, rf, rr, store, decision, event,
          proc, repo, sched, calc>>

cfgvars == <<fs0, max_retries, max_workers, mode, agent>>
approvalvars == <<store, decision, event>>
opvars == <<rf, rr>>
sidevars == <<proc, repo, sched, calc>>
\* the state of the task queue, its workers and the approval store
queuevars == <<fs, pc, task, result, calls, budget, hist, cfgvars, opvars, approvalvars>>

Active == 0..(max_workers - 1)
Stopped == {"off", "exited", "raised", "crashed"}

Pending(f) == {n \in Names : Exists(f, PendPath(n))}

\* ---------------------------------------------------------------- TaskQueue (task.py)
last_pending(f) == CHOOSE n \in Pending(f) : \A m \in Pending(f) : m <= n

\* claim_next, inside the lock: pending[0] of sorted(glob("*.md"))
first_pending(f) == Min(Pending(f))

claim_copy(f, n, w) == WriteFile(f, RunPath(n, w), f[PendPath(n)])

\* claim_next, the rename pending -> running tagged with the worker
claim_rename(f, n, w) == Rename(f, PendPath(n), RunPath(n, w))

half_rename(f, src, dst) == Unlink(f, src)

\* claim_next: task_file.rename(running_path) raises OSError, which is logged
failed_rename(f, src, dst) == f

\* claim_next, outside the lock: the Task built from the running file
read_task(f, n, w) ==
    [name |-> n, content |-> f[RunPath(n, w)],
     retries |-> _extract_retry_count(f[RunPath(n, w)])]

complete_copy(f, t, w, stamp) ==
    IF Exists(f, RunPath(t.name, w))
    THEN WriteFile(f, DonePath(stamp, t.name), f[RunPath(t.name, w)])
    ELSE f

\* complete: rename the running file into done/; an OSError is logged only
complete(f, t, w, stamp) ==
    IF Exists(f, RunPath(t.name, w))
    THEN Rename(f, RunPath(t.name, w), DonePath(stamp, t.name))
    ELSE f

\* release: the running file goes back to its pending name, content untouched
release(f, t, w) ==
    IF Exists(f, RunPath(t.name, w))
    THEN Rename(f, RunPath(t.name, w), PendPath(t.name))
    ELSE f

new_retries(t) == t.retries + 1

\* fail: the branch taken, new_retries < max_retries
requeues(t, limit) == new_retries(t) < limit

\* fail: the destination file
fail_dest(t, limit, stamp) ==
    IF requeues(t, limit) THEN PendPath(t.name) ELSE FailPath(stamp, t.name)

\* fail: the content written to the destination
fail_content(t, e, limit) ==
    IF requeues(t, limit)
    THEN <<FailedLine>> \o ErrorLines(e) \o _set_retry_count(t.content, new_retries(t))
    ELSE <<FinalLine>> \o ErrorLines(e) \o <<ExhaustedLine(new_retries(t), limit)>> \o t.content

lost_write(f, dest, content) == f

torn_write(f, dest) == WriteFile(f, dest, <<>>)

\* _atomic_write raised: the temp file is unlinked, dest is not touched
failed_write(f, dest) == f

\* _atomic_write: the temp file (*.tmp, matched by no glob of the queue) is
\* written and moved onto dest by os.replace
_atomic_write(f, dest, content) == WriteFile(f, dest, content)

fail_keep(f, t, w) == f

\* fail, after _atomic_write returned: task.path.unlink(), OSError ignored
fail_unlink(f, t, w) ==
    IF Exists(f, RunPath(t.name, w)) THEN Unlink(f, RunPath(t.name, w)) ELSE f

\* datetime.now() in a file name "<timestamp>_<stem>.md" of directory d, to the
\* microsecond: only the order of the stamps of one stem in one directory is
\* kept.  Two files of one stem are written an agent run apart, so a new
\* stamp is later than every stamp in use
Used(f, d, n) == {p.ts : p \in {q \in DOMAIN f : q.d = d /\ q.stem = n}}
Max(S) == CHOOSE x \in S : \A y \in S : x >= y
Stamp(f, d, n) == IF Used(f, d, n) = {} THEN 0 ELSE Max(Used(f, d, n)) + 1

\* ---------------------------------------------------------------- worker (worker.py)
always_loops(sd) == TRUE

\* worker_loop: while not shutdown_event.is_set()
keeps_looping(sd) == ~sd

WLoop(w) ==
    /\ pc[w] = "loop"
    /\ pc' = [pc EXCEPT ![w] = IF keeps_looping(shutdown) THEN "claim" ELSE "exited"]
    /\ UNCHANGED <<fs, shutdown, task, result, calls, budget, hist, cfgvars, sidevars, opvars, approvalvars>>

\* claim_next under the lock: scan, pick the first, rename; None on OSError
ClaimNext(w) ==
    /\ pc[w] = "claim"
    /\ IF Pending(fs) = {}
       THEN /\ pc' = [pc EXCEPT ![w] = "exited"]
            /\ UNCHANGED <<fs, task, budget, hist>>
       ELSE \/ /\ fs' = claim_rename(fs, first_pending(fs), w)
               /\ task' = [task EXCEPT ![w] = [NoTask EXCEPT !.name = first_pending(fs)]]
               /\ pc' = [pc EXCEPT ![w] = "read"]
               /\ UNCHANGED <<budget, hist>>
            \/ /\ budget > 0
               /\ budget' = budget - 1
               /\ hist' = hist \cup {"fault"}
               /\ pc' = [pc EXCEPT ![w] = "exited"]
               /\ fs' = failed_rename(fs, PendPath(first_pending(fs)),
                                           RunPath(first_pending(fs), w))
               /\ UNCHANGED task
    /\ UNCHANGED <<shutdown, result, calls, cfgvars, sidevars, opvars, approvalvars>>

\* claim_next outside the lock (stat, size check, read_text), then
\* _execute_task up to the spawn of the child
ClaimRead(w) ==
    /\ pc[w] = "read"
    /\ IF ~Exists(fs, RunPath(task[w].name, w))
       THEN /\ pc' = [pc EXCEPT ![w] = "raised"]
            /\ task' = [task EXCEPT ![w] = NoTask]
            /\ UNCHANGED calls
       ELSE IF Oversized(fs[RunPath(task[w].name, w)])
       THEN /\ pc' = [pc EXCEPT ![w] = "exited"]
            /\ task' = [task EXCEPT ![w] = NoTask]
            /\ UNCHANGED calls
       ELSE IF Undecodable(fs[RunPath(task[w].name, w)])
       THEN /\ pc' = [pc EXCEPT ![w] = "raised"]
            /\ task' = [task EXCEPT ![w] = NoTask]
            /\ UNCHANGED calls
       ELSE /\ calls < MaxCalls
            /\ calls' = calls + 1
            /\ pc' = [pc EXCEPT ![w] = IF mode = "direct" THEN "exec_run" ELSE "plan_run"]
            /\ task' = [task EXCEPT ![w] = read_task(fs, task[w].name, w)]
    /\ UNCHANGED <<fs, shutdown, result, budget, hist, cfgvars, sidevars, opvars, approvalvars>>

\* _run_claude: what the poll loop returns
\*   the child has exited: code 0, or nonzero with its stderr
\*   else the shutdown signal is set: terminate, "interrupted"
\*   else the deadline has passed: kill, "timeout"
poll_outcomes(sd) ==
    IF sd THEN (agent \ {Hangs}) \cup {Outcome(FALSE, ErrInterrupted)} ELSE agent

\* generate_plan returned (run_plan or _execute_with_approval)
PlanDone(w) ==
    /\ pc[w] = "plan_run"
    /\ \E r \in poll_outcomes(shutdown) :
         /\ result' = [result EXCEPT ![w] = r]
         /\ pc' = [pc EXCEPT ![w] =
                IF ~r.success THEN "returned"
                ELSE IF mode = "approval" THEN "submit" ELSE "exec_run"]
    /\ UNCHANGED <<fs, shutdown, task, calls, budget, hist, cfgvars, sidevars, opvars, approvalvars>>

\* run_task / execute_plan returned
ExecDone(w) ==
    /\ pc[w] = "exec_run"
    /\ \E r \in poll_outcomes(shutdown) :
         result' = [result EXCEPT ![w] = r]
    /\ pc' = [pc EXCEPT ![w] = "returned"]
    /\ UNCHANGED <<fs, shutdown, task, calls, budget, hist, cfgvars, sidevars, opvars, approvalvars>>

\* _execute_with_approval: approval_store.submit
Submit(w) ==
    /\ pc[w] = "submit"
    /\ store' = store \cup {w}
    /\ decision' = [decision EXCEPT ![w] = "pending"]
    /\ event' = [event EXCEPT ![w] = FALSE]
    /\ pc' = [pc EXCEPT ![w] = "wait"]
    /\ UNCHANGED <<fs, shutdown, task, result, calls, budget, hist, cfgvars, sidevars, opvars>>

\* approval.wait(timeout): true once the event is set, false on timeout
WaitReturn(w) ==
    /\ pc[w] = "wait"
    /\ result' = [result EXCEPT ![w].approved = event[w]]
    /\ pc' = [pc EXCEPT ![w] = "remove"]
    /\ UNCHANGED <<fs, shutdown, task, calls, budget, hist, cfgvars, sidevars, opvars, approvalvars>>

ignore_decision(approved, dec) == IF approved THEN "execute" ELSE "timeout"

\* _execute_with_approval after wait(): not approved -> approval timeout,
\* decision REJECTED -> rejected, else execute_plan
after_approval(approved, dec) ==
    IF ~approved THEN "timeout" ELSE IF dec = "rejected" THEN "rejected" ELSE "execute"

keep_record(st, w) == st

\* ApprovalStore.remove: self._items.pop(approval_id, None)
store_remove(st, w) == st \ {w}

\* approval_store.remove, then the decision is read
RemoveDecide(w) ==
    /\ pc[w] = "remove"
    /\ store' = store_remove(store, w)
    /\ IF after_approval(result[w].approved, decision[w]) = "timeout"
       THEN /\ result' = [result EXCEPT ![w] = Outcome(FALSE, ErrApprovalTimeout)]
            /\ pc' = [pc EXCEPT ![w] = "returned"]
       ELSE IF after_approval(result[w].approved, decision[w]) = "rejected"
       THEN /\ result' = [result EXCEPT ![w] = Outcome(FALSE, ErrRejected)]
            /\ pc' = [pc EXCEPT ![w] = "returned"]
       ELSE /\ pc' = [pc EXCEPT ![w] = "exec_run"]
            /\ UNCHANGED result
    /\ UNCHANGED <<fs, shutdown, task, calls, budget, hist, cfgvars, sidevars, opvars, decision, event>>

success_first(sd, r) ==
    IF r.success THEN "complete" ELSE IF sd THEN "release" ELSE "fail"

\* _execute_task after the run returned: the shutdown signal is examined
\* first, then result.success
outcome_action(sd, r) ==
    IF sd THEN "release" ELSE IF r.success THEN "complete" ELSE "fail"

\* queue.release(task); return
Release(w) ==
    /\ pc[w] = "returned"
    /\ outcome_action(shutdown, result[w]) = "release"
    /\ fs' = release(fs, task[w], w)
    /\ pc' = [pc EXCEPT ![w] = "loop"]
    /\ task' = [task EXCEPT ![w] = NoTask]
    /\ UNCHANGED <<shutdown, result, calls, budget, hist, cfgvars, sidevars, opvars, approvalvars>>

\* _execute_task: result.success -> queue.complete
Complete(w) ==
    /\ pc[w] = "returned"
    /\ outcome_action(shutdown, result[w]) = "complete"
    /\ \/ /\ fs' = complete(fs, task[w], w, Stamp(fs, "done", task[w].name))
          /\ UNCHANGED <<budget, hist>>
       \/ /\ budget > 0
          /\ budget' = budget - 1
          /\ hist' = hist \cup {"fault"}
          /\ UNCHANGED fs
    /\ pc' = [pc EXCEPT ![w] = "loop"]
    /\ task' = [task EXCEPT ![w] = NoTask]
    /\ UNCHANGED <<shutdown, result, calls, cfgvars, sidevars, opvars, approvalvars>>

\* _execute_task: queue.fail up to the end of _atomic_write; an error of the
\* write propagates out of fail() and out of worker_loop
FailWrite(w) ==
    /\ pc[w] = "returned"
    /\ outcome_action(shutdown, result[w]) = "fail"
    /\ \/ /\ fs' = _atomic_write(fs,
                      fail_dest(task[w], max_retries, Stamp(fs, "failed", task[w].name)),
                      fail_content(task[w], result[w].error, max_retries))
          /\ pc' = [pc EXCEPT ![w] = "fail_unlink"]
          /\ UNCHANGED <<budget, hist>>
       \/ /\ budget > 0
          /\ budget' = budget - 1
          /\ hist' = hist \cup {"fault"}
          /\ pc' = [pc EXCEPT ![w] = "raised"]
          /\ fs' = failed_write(fs, fail_dest(task[w], max_retries,
                                               Stamp(fs, "failed", task[w].name)))
    /\ UNCHANGED <<shutdown, task, result, calls, cfgvars, sidevars, opvars, approvalvars>>

\* fail: task.path.unlink()
FailUnlink(w) ==
    /\ pc[w] = "fail_unlink"
    /\ fs' = fail_unlink(fs, task[w], w)
    /\ pc' = [pc EXCEPT ![w] = "loop"]
    /\ task' = [task EXCEPT ![w] = NoTask]
    /\ UNCHANGED <<shutdown, result, calls, budget, hist, cfgvars, sidevars, opvars, approvalvars>>

\* ---------------------------------------------------------------- approval gate (approval.py)
\* ApprovalStore.approve: unknown id -> False, else item.approve()
Approve(w) ==
    /\ w \in store
    /\ decision' = [decision EXCEPT ![w] = "approved"]
    /\ event' = [event EXCEPT ![w] = TRUE]
    /\ UNCHANGED <<fs, shutdown, pc, task, result, calls, budget, hist, store, cfgvars, sidevars, opvars>>

\* ApprovalStore.reject: unknown id -> False, else item.reject()
Reject(w) ==
    /\ w \in store
    /\ decision' = [decision EXCEPT ![w] = "rejected"]
    /\ event' = [event EXCEPT ![w] = TRUE]
    /\ UNCHANGED <<fs, shutdown, pc, task, result, calls, budget, hist, store, cfgvars, sidevars, opvars>>

\* ---------------------------------------------------------------- retry_failed (task.py)
FailedFiles(f) == {p \in DOMAIN f : IsFailed(p)}

\* the files retry_failed works on: one name (timestamp prefix stripped) or all
rf_matches(f, nm) ==
    IF nm = 0 THEN FailedFiles(f) ELSE {p \in FailedFiles(f) : p.stem = nm}

\* sorted(fail_dir.glob("*.md")) orders by "<timestamp>_<stem>": the files of
\* one stem in stamp order; a glob for one name is iterated in directory
\* order, which is any order
rf_next(todo, nm) ==
    IF nm = 0
    THEN {p \in todo : \A q \in todo : q.stem = p.stem => p.ts <= q.ts}
    ELSE todo

RFStart(nm) ==
    /\ rf.pc = "off"
    /\ rr.pc \in {"off", "done"}
    /\ budget > 0
    /\ rf_matches(fs, nm) # {}
    /\ budget' = budget - 1
    /\ hist' = hist \cup {"retry"}
    /\ rf' = [RfOff EXCEPT !.pc = "write", !.todo = rf_matches(fs, nm), !.name = nm]
    /\ UNCHANGED <<fs, shutdown, pc, task, result, calls, cfgvars, sidevars, rr, approvalvars>>

\* read the failed file, drop the marker lines, write <stem>.md into tasks/
RFWrite ==
    /\ rf.pc = "write"
    /\ \E src \in rf_next(rf.todo, rf.name) :
         /\ fs' = WriteFile(fs, PendPath(src.stem), clean_content(fs[src]))
         /\ rf' = [rf EXCEPT !.pc = "unlink", !.src = src]
    /\ UNCHANGED <<shutdown, pc, task, result, calls, budget, hist, cfgvars, sidevars, rr, approvalvars>>

\* src.unlink(), retried.append(dest_name), next file
RFUnlink ==
    /\ rf.pc = "unlink"
    /\ fs' = Unlink(fs, rf.src)
    /\ rf' = IF rf.todo = {rf.src} THEN RfOff
             ELSE [rf EXCEPT !.pc = "write", !.todo = rf.todo \ {rf.src},
                             !.retried = Append(rf.retried, rf.src.stem)]
    /\ UNCHANGED <<shutdown, pc, task, result, calls, budget, hist, cfgvars, sidevars, rr, approvalvars>>

\* ---------------------------------------------------------------- recover_running (task.py)
RunningFiles(f) == {p \in DOMAIN f : IsRunning(p)}

NameBefore(p, q) == p.stem < q.stem \/ (p.stem = q.stem /\ p.w <= q.w)

\* sorted(task_dir.glob("*.md.running.*"))
RECURSIVE SortedPaths(_)
SortedPaths(S) ==
    IF S = {} THEN <<>>
    ELSE LET p == CHOOSE x \in S : \A y \in S : NameBefore(x, y)
         IN <<p>> \o SortedPaths(S \ {p})

\* recover_running is the crash recovery run at startup: it is started while
\* no worker is active and no retry_failed is in progress
RRStart ==
    /\ rr.pc # "check" /\ rr.pc # "act"
    /\ rf.pc = "off"
    /\ \A w \in Active : pc[w] \in Stopped
    /\ RunningFiles(fs) # {}
    /\ hist' = hist \cup {"recover"}
    /\ rr' = [RrOff EXCEPT !.pc = "check", !.todo = SortedPaths(RunningFiles(fs))]
    /\ UNCHANGED <<fs, shutdown, pc, task, result, calls, budget, cfgvars, sidevars, rf, approvalvars>>

\* restored.exists()
RRCheck ==
    /\ rr.pc = "check"
    /\ rr' = [rr EXCEPT !.pc = "act", !.ex = Exists(fs, PendPath(Head(rr.todo).stem))]
    /\ UNCHANGED <<fs, shutdown, pc, task, result, calls, budget, hist, cfgvars, sidevars, rf, approvalvars>>

recover_rename(f, p, ex) == IF Exists(f, p) THEN Rename(f, p, PendPath(p.stem)) ELSE f

recover_delete(f, p, ex) == IF Exists(f, p) THEN Unlink(f, p) ELSE f

\* the conflict branch unlinks the running file, the other renames it to
\* <stem>.md; an OSError (the file is gone) is logged only
recover_one(f, p, ex) ==
    IF ~Exists(f, p) THEN f
    ELSE IF ex THEN Unlink(f, p)
    ELSE Rename(f, p, PendPath(p.stem))

\* count += 1: always in the conflict branch, after a successful rename in the other
recover_counts(f, p, ex) == ex \/ Exists(f, p)

how_recovered(f, p, ex) ==
    IF ~Exists(f, p) THEN "missing" ELSE IF ex THEN "deleted" ELSE "renamed"

RRAct ==
    /\ rr.pc = "act"
    /\ fs' = recover_one(fs, Head(rr.todo), rr.ex)
    /\ rr' = [rr EXCEPT !.pc = IF Len(rr.todo) = 1 THEN "done" ELSE "check",
                        !.todo = Tail(rr.todo), !.ex = FALSE,
                        !.count = rr.count + (IF recover_counts(fs, Head(rr.todo), rr.ex) THEN 1 ELSE 0),
                        !.last = Head(rr.todo),
                        !.how = how_recovered(fs, Head(rr.todo), rr.ex)]
    /\ UNCHANGED <<shutdown, pc, task, result, calls, budget, hist, cfgvars, sidevars, rf, approvalvars>>

\* ---------------------------------------------------------------- environment
\* the shutdown signal is set (threading.Event.set)
SetShutdown ==
    /\ ~shutdown
    /\ \E w \in Active : pc[w] \notin Stopped
    /\ shutdown' = TRUE
    /\ UNCHANGED <<fs, pc, task, result, calls, budget, hist, cfgvars, sidevars, opvars, approvalvars>>

\* the process dies: every thread stops where it is, memory is lost, files stay
Crash ==
    /\ budget > 0
    /\ \/ \E w \in Active : pc[w] \notin Stopped
       \/ rf.pc # "off"
       \/ rr.pc \in {"check", "act"}
    /\ budget' = budget - 1
    /\ hist' = hist \cup {"crash"}
    /\ pc' = [w \in Workers |-> IF pc[w] \in Stopped THEN pc[w] ELSE "crashed"]
    /\ task' = [w \in Workers |-> NoTask]
    /\ result' = [w \in Workers |-> NoResult]
    /\ rf' = RfOff
    /\ rr' = RrOff
    /\ store' = {}
    /\ decision' = [w \in Workers |-> "pending"]
    /\ event' = [w \in Workers |-> FALSE]
    /\ UNCHANGED <<fs, shutdown, calls, cfgvars, sidevars>>

\* run_loop is started again after a crash: it returns at once without a
\* pending task, else starts workers w0..w(max_workers-1); the shutdown
\* signal of the new process is unset
Restart ==
    /\ \E w \in Active : pc[w] = "crashed"
    /\ \A w \in Active : pc[w] \in Stopped
    /\ rr.pc \in {"off", "done"}
    /\ Pending(fs) # {}
    /\ pc' = [w \in Workers |-> IF w \in Active THEN "loop" ELSE "off"]
    /\ shutdown' = FALSE
    /\ UNCHANGED <<fs, task, result, calls, budget, hist, cfgvars, sidevars, opvars, approvalvars>>

\* ---------------------------------------------------------------- specification
InitCommon(events) ==
    /\ fs0 = fs
    /\ shutdown = FALSE
    /\ pc = [w \in Workers |-> IF w \in Active THEN "loop" ELSE "off"]
    /\ task = [w \in Workers |-> NoTask]
    /\ result = [w \in Workers |-> NoResult]
    /\ calls = 0
    /\ budget = events
    /\ hist = {}
    /\ rf = RfOff
    /\ rr = RrOff
    /\ store = {}
    /\ decision = [w \in Workers |-> "pending"]
    /\ event = [w \in Workers |-> FALSE]
    /\ proc = ProcOff
    /\ repo = RepoOff
    /\ sched = SchedOff
    /\ calc = CalcOff

\* two workers on two pending tasks, tasks run directly
Init ==
    /\ fs = [p \in {PendPath(n) : n \in Names} |-> Body]
    /\ max_retries \in 1..MaxRetriesBound
    /\ max_workers = 2
    /\ mode = "direct"
    /\ agent = {Success, Outcome(FALSE, ErrBroke), Hangs}
    /\ InitCommon(MaxEvents)

QueueStep(w) ==
    \/ WLoop(w) \/ ClaimNext(w) \/ ClaimRead(w) \/ ExecDone(w)
    \/ Release(w) \/ Complete(w) \/ FailWrite(w) \/ FailUnlink(w)

ApprovalStep(w) ==
    \/ PlanDone(w) \/ Submit(w) \/ WaitReturn(w) \/ RemoveDecide(w)

WorkerStep(w) == QueueStep(w) \/ ApprovalStep(w)

EnvStep ==
    \/ \E nm \in Names \cup {0} : RFStart(nm)
    \/ RFWrite
    \/ RFUnlink
    \/ RRStart
    \/ RRCheck
    \/ RRAct
    \/ SetShutdown
    \/ Crash
    \/ Restart

Next ==
    \/ \E w \in Active : QueueStep(w)
    \/ EnvStep

Spec == Init /\ [][Next]_vars

\* one worker on one pending task, with or without a retry marker, and an
\* agent that fails every time; no signal, no crash, no I/O error
SoloInit ==
    /\ fs \in {[p \in {PendPath(n)} |-> c] : n \in Names, c \in {Body, Retried1}}
    /\ max_retries \in 1..MaxRetriesBound
    /\ max_workers = 1
    /\ mode = "direct"
    /\ agent \in {{Outcome(FALSE, ErrBroke), Hangs},
                  {Outcome(FALSE, ErrBroke), Hangs, Outcome(FALSE, ErrMarker)}}
    /\ InitCommon(0)

SoloNext ==
    \/ WLoop(0) \/ ClaimNext(0) \/ ClaimRead(0) \/ ExecDone(0)
    \/ FailWrite(0) \/ FailUnlink(0)

SoloSpec == SoloInit /\ [][SoloNext]_vars

\* one worker on one pending task and an agent that fails every time, one of
\* its errors a stderr of two lines; "vibe retry" may run once a file is in
\* failed/
RetryInit ==
    /\ fs \in {[p \in {PendPath(n)} |-> c] : n \in Names, c \in {Body, BlankLed}}
    /\ max_retries \in 1..MaxRetriesBound
    /\ max_workers = 1
    /\ mode = "direct"
    /\ agent \in {{Outcome(FALSE, ErrBroke), Hangs},
                  {Outcome(FALSE, ErrBroke), Hangs, Outcome(FALSE, ErrMarker)},
                  {Outcome(FALSE, ErrBroke), Hangs, Outcome(FALSE, ErrLines)}}
    /\ InitCommon(MaxEvents)

RetryNext ==
    \/ WLoop(0) \/ ClaimNext(0) \/ ClaimRead(0) \/ ExecDone(0)
    \/ FailWrite(0) \/ FailUnlink(0)
    \/ \E nm \in Names \cup {0} : RFStart(nm)
    \/ RFWrite
    \/ RFUnlink

RetrySpec == RetryInit /\ [][RetryNext]_vars

\* two workers on two pending tasks, the first file oversized or not UTF-8;
\* the shutdown signal and I/O errors may occur
EdgeInit ==
    /\ fs \in {[p \in {PendPath(n) : n \in Names} |-> IF p.stem = 1 THEN c ELSE Body] :
                  c \in {Huge, Garbled}}
    /\ max_retries \in 1..MaxRetriesBound
    /\ max_workers = 2
    /\ mode = "direct"
    /\ agent = {Success, Outcome(FALSE, ErrBroke), Hangs}
    /\ InitCommon(MaxEvents)

EdgeNext ==
    \/ \E w \in Active : QueueStep(w)
    \/ SetShutdown

EdgeSpec == EdgeInit /\ [][EdgeNext]_vars

\* any non-empty set of pending tasks, one or two workers, an agent that
\* always succeeds in time or one that may fail or hang; the shutdown signal
\* may arrive; no crash, no I/O error
RunInit ==
    /\ fs \in {[p \in {PendPath(n) : n \in S} |-> Body] : S \in (SUBSET Names) \ {{}}}
    /\ max_retries \in 1..MaxRetriesBound
    /\ max_workers \in {1, 2}
    /\ mode = "direct"
    /\ agent \in {{Success}, {Success, Outcome(FALSE, ErrBroke), Hangs}}
    /\ InitCommon(0)

RunNext ==
    \/ \E w \in Active : QueueStep(w)
    \/ SetShutdown

\* a worker thread that can take a step takes one
RunSpec == RunInit /\ [][RunNext]_vars /\ \A w \in Workers : WF_vars(QueueStep(w))

\* plan mode with manual approval, one pending task, a plan agent that
\* always produces a plan or one that may fail or hang, and a reviewer who
\* only ever rejects; approval.wait may also time out; no shutdown
RejectInit ==
    /\ fs = [p \in {PendPath(1)} |-> Body]
    /\ max_retries \in 1..MaxRetriesBound
    /\ max_workers \in {1, 2}
    /\ mode = "approval"
    /\ agent \in {{Success}, {Success, Outcome(FALSE, ErrBroke), Hangs}}
    /\ InitCommon(0)

RejectNext ==
    \/ \E w \in Active : WorkerStep(w)
    \/ \E w \in Active : Reject(w)

RejectSpec == RejectInit /\ [][RejectNext]_vars /\ \A w \in Workers : WF_vars(WorkerStep(w))

\* two workers on one pending task in each execution mode, with the approval
\* gate and the shutdown signal; no crash, no I/O error
LiveInit ==
    /\ fs = [p \in {PendPath(1)} |-> Body]
    /\ max_retries \in 1..MaxRetriesBound
    /\ max_workers = 2
    /\ mode \in {"direct", "plan", "approval"}
    /\ agent = {Success, Outcome(FALSE, ErrBroke), Hangs}
    /\ InitCommon(0)

LiveNext ==
    \/ \E w \in Active : WorkerStep(w)
    \/ \E w \in Active : Approve(w)
    \/ \E w \in Active : Reject(w)
    \/ SetShutdown

\* a worker thread that can take a step takes one: the poll loop of
\* _run_claude wakes every 0.5 s and ends at the deadline, approval.wait ends
\* at its timeout, the queue lock is held for a scan and a rename only
LiveSpec == LiveInit /\ [][LiveNext]_vars /\ \A w \in Workers : WF_vars(WorkerStep(w))

\* no queue, no worker: the state of the queue part while another part runs
QueueIdle ==
    /\ fs = <<>>
    /\ fs0 = fs
    /\ shutdown = FALSE
    /\ max_retries = 1
    /\ mode = "direct"
    /\ agent = {Success}
    /\ pc = [w \in Workers |-> "off"]
    /\ task = [w \in Workers |-> NoTask]
    /\ result = [w \in Workers |-> NoResult]
    /\ calls = 0
    /\ budget = 0
    /\ hist = {}
    /\ rf = RfOff
    /\ rr = RrOff
    /\ store = {}
    /\ decision = [w \in Workers |-> "pending"]
    /\ event = [w \in Workers |-> FALSE]

\* ---------------------------------------------------------------- stream-json parsing (manager.py)
\* the stdout lines told apart by what _parse_stream_json does with them
\*   "blank"        only whitespace
\*   "not json"     json.loads raises JSONDecodeError (also a line that was
\*                  not UTF-8: _read_stream decodes with errors="replace")
\*   "assistant text"   {"type":"assistant","message":{"content":[{"type":"text","text":"hello"}]}}
\*   "assistant tool"   the same with a block {"type":"tool_use","name":"Write","input":{"file_path":"/a"}}
\*   "tool_use"     {"type":"tool_use","name":"Edit","input":{"file_path":"/b"}}
\*   "result"       {"type":"result","result":"final"}
\*   "system"       {"type":"system"}: a JSON object of no recognized type
\*   "scalar"       42, null, "x", [1]: valid JSON that is not an object
\*   "null content" {"type":"assistant","message":{"content":null}}
\*   "null input"   {"type":"tool_use","name":"Write","input":null}
LineShapes == {"blank", "not json", "assistant text", "assistant tool", "tool_use",
               "result", "system", "scalar", "null content", "null input"}

\* the text a line adds to output_parts
output_of(l) ==
    CASE l = "not json" -> <<"not json">>
      [] l = "assistant text" -> <<"hello">>
      [] l = "result" -> <<"final">>
      [] OTHER -> <<>>

\* the entries a line adds to tool_calls, each the file_path of its input,
\* "none" for an input that is not a mapping
tools_of(l) ==
    CASE l = "assistant tool" -> <<"/a">>
      [] l = "tool_use" -> <<"/b">>
      [] l = "null input" -> <<"none">>
      [] OTHER -> <<>>

\* event.get on a value that is not a dict raises AttributeError; iterating
\* message.get("content", []) raises TypeError when content is null
raises_in_loop(l) == l \in {"scalar", "null content"}

\* "file_path" in tool_input raises TypeError when the input is null
raises_in_files(t) == t = "none"

ParseRaised == [raised |-> TRUE, success |-> FALSE, output |-> <<>>, tool_calls |-> <<>>]

NotParsed == [raised |-> FALSE, success |-> FALSE, output |-> <<>>, tool_calls |-> <<>>]

\* _parse_stream_json(lines)
_parse_stream_json(lines) ==
    LET F[i \in 0..Len(lines)] ==
            IF i = 0 THEN [raised |-> FALSE, success |-> TRUE, output |-> <<>>, tool_calls |-> <<>>]
            ELSE IF F[i - 1].raised \/ raises_in_loop(lines[i]) THEN ParseRaised
            ELSE [F[i - 1] EXCEPT !.output = @ \o output_of(lines[i]),
                                  !.tool_calls = @ \o tools_of(lines[i])]
        r == F[Len(lines)]
    IN IF r.raised \/ \E j \in 1..Len(r.tool_calls) : raises_in_files(r.tool_calls[j])
       THEN ParseRaised
       ELSE r

\* all sequences of at most n lines
LinesUpTo(n) == UNION {[1..k -> LineShapes] : k \in 0..n}

\* the parser is applied to the lines drawn at the start
ParseLines ==
    /\ calc.pc = "lines"
    /\ calc' = [calc EXCEPT !.pc = "parsed", !.out = _parse_stream_json(calc.lines)]
    /\ UNCHANGED <<shutdown, queuevars, proc, repo, sched>>

ParseInit ==
    /\ QueueIdle
    /\ max_workers = 1
    /\ proc = ProcOff /\ repo = RepoOff /\ sched = SchedOff
    /\ \E ls \in LinesUpTo(MaxLines) :
         calc = [pc |-> "lines", lines |-> ls, out |-> NotParsed]

ParseNext == ParseLines

ParseSpec == ParseInit /\ [][ParseNext]_vars

\* ---------------------------------------------------------------- process manager (manager.py)
\* exit codes of a child that exits by itself, by SIGTERM, by SIGKILL
ExitCodes == {0, 1, 2}
SigTermCode == -15
SigKillCode == -9
NoCode == -99

NoTaskResult == [success |-> FALSE, error |-> "none", code |-> NoCode, stderr |-> "",
                 return_code |-> NoCode]

\* the TaskResult of each return of _run_claude after the spawn; on exit
\* code 0 it is the result of the parser, with the return code set
exit_result(rc, stderr, stdout) ==
    IF rc # 0
    THEN [success |-> FALSE, error |-> "exit code", code |-> rc, stderr |-> stderr,
          return_code |-> rc]
    ELSE [success |-> _parse_stream_json(stdout).success, error |-> "", code |-> NoCode,
          stderr |-> "", return_code |-> rc]

timeout_result ==
    [success |-> FALSE, error |-> "timeout", code |-> NoCode, stderr |-> "",
     return_code |-> NoCode]

interrupted_result(rc) ==
    [success |-> FALSE, error |-> "interrupted", code |-> NoCode, stderr |-> "",
     return_code |-> rc]

deadline_first(exited, sd, late) ==
    IF exited THEN "break" ELSE IF late THEN "timeout" ELSE IF sd THEN "interrupt" ELSE "wait"

\* one iteration of the poll loop: proc.wait(0.5) returned -> break; else the
\* shutdown signal is examined, then the deadline
poll_decision(exited, sd, late) ==
    IF exited THEN "break" ELSE IF sd THEN "interrupt" ELSE IF late THEN "timeout" ELSE "wait"

\* the child exits by itself, or, once SIGTERM was sent, because of it
ChildExits ==
    /\ proc.pc \in {"poll", "grace"}
    /\ proc.child = "running"
    /\ \E rc \in ExitCodes \cup (IF proc.sigs # <<>> THEN {SigTermCode} ELSE {}) :
         proc' = [proc EXCEPT !.child = "exited", !.rc = rc]
    /\ UNCHANGED <<shutdown, queuevars, repo, sched, calc>>

\* time.monotonic() reaches the deadline
DeadlinePasses ==
    /\ proc.pc = "poll"
    /\ ~proc.late
    /\ proc' = [proc EXCEPT !.late = TRUE]
    /\ UNCHANGED <<shutdown, queuevars, repo, sched, calc>>

\* shutdown_event.set() while _run_claude is in its loop
SignalDuringRun ==
    /\ proc.pc \in {"poll", "grace"}
    /\ ~shutdown
    /\ shutdown' = TRUE
    /\ UNCHANGED <<queuevars, sidevars>>

\* an iteration of the poll loop that leaves the loop
Poll ==
    /\ proc.pc = "poll"
    /\ LET d == poll_decision(proc.child = "exited", shutdown, proc.late)
       IN \/ /\ d = "break"
             /\ IF proc.rc = 0 /\ _parse_stream_json(proc.stdout).raised
                THEN proc' = [proc EXCEPT !.pc = "raised"]
                ELSE proc' = [proc EXCEPT !.pc = "done",
                                !.res = exit_result(proc.rc, proc.stderr, proc.stdout)]
          \/ /\ d = "interrupt"
             /\ proc' = [proc EXCEPT !.pc = "grace", !.sigs = Append(@, "term")]
          \/ /\ d = "timeout"
             /\ proc' = [proc EXCEPT !.pc = "done", !.sigs = Append(@, "kill"),
                                     !.child = "exited", !.rc = SigKillCode,
                                     !.res = timeout_result]
    /\ UNCHANGED <<shutdown, queuevars, repo, sched, calc>>

\* proc.wait(timeout=5) after terminate(): the child has exited, or the
\* wait expires and the child is killed
GraceEnds ==
    /\ proc.pc = "grace"
    /\ IF proc.child = "exited"
       THEN proc' = [proc EXCEPT !.pc = "done", !.res = interrupted_result(proc.rc)]
       ELSE proc' = [proc EXCEPT !.pc = "done", !.sigs = Append(@, "kill"),
                                 !.child = "exited", !.rc = SigKillCode,
                                 !.res = interrupted_result(SigKillCode)]
    /\ UNCHANGED <<shutdown, queuevars, repo, sched, calc>>

\* _run_claude after a successful Popen; the signal may be set beforehand
ManagerInit ==
    /\ QueueIdle
    /\ max_workers = 1
    /\ repo = RepoOff /\ sched = SchedOff /\ calc = CalcOff
    /\ \E e \in {"", "stderr line 1"}, out \in {<<>>, <<"result">>, <<"scalar">>} :
         proc = [pc |-> "poll", child |-> "running", rc |-> NoCode, late |-> FALSE,
                 stderr |-> e, stdout |-> out, sigs |-> <<>>, res |-> NoTaskResult]

ManagerNext ==
    \/ ChildExits
    \/ DeadlinePasses
    \/ SignalDuringRun
    \/ Poll
    \/ GraceEnds

ManagerSpec == ManagerInit /\ [][ManagerNext]_vars

\* ---------------------------------------------------------------- worktrees (loop.py, worktree.py)
\* _run_git: the exit status of the git command is 0 or not, or
\* subprocess.run raises TimeoutExpired after 60 s
GitOutcomes == {"ok", "nonzero", "timeout"}

NoDir == [kind |-> "none", of |-> 0]
Workspace == [kind |-> "workspace", of |-> 0]

\* worktrees[wid]: the worktree created for this worker
worktree_of(w) == [kind |-> "worktree", of |-> w]

RepoStart ==
    [pc |-> "setup",
     i |-> 0,                                  \* index of the create / merge loop
     wt |-> [w \in Workers |-> "none"],        \* worktree: none, created, removed
     branch |-> [w \in Workers |-> FALSE],     \* the branch vibe/<wid>-... exists
     st |-> [w \in Workers |-> "idle"],        \* worker_loop: idle, running, returned, raised
     cwd |-> [w \in Workers |-> NoDir],        \* where the worker runs
     dirty |-> [w \in Workers |-> FALSE],      \* worktree w has uncommitted changes
     changed |-> [w \in Workers |-> FALSE],    \* files were changed in worktree w
     committed |-> [w \in Workers |-> FALSE],  \* the changes are a commit on branch w
     merging |-> {},                           \* merges in progress in the source repository
     res |-> [w \in Workers |-> "none"],       \* return value of commit_and_merge
     rm |-> {},                                \* workers whose remove_worktree was called
     writers |-> {}]                           \* who has changed the source repository

\* _run_with_worktrees: create_worktree(workspace, wid) in the setup loop;
\* RuntimeError is caught, anything else leaves run_loop
CreateWorktree ==
    /\ repo.pc = "setup"
    /\ \E g \in GitOutcomes :
         CASE g = "ok" ->
                repo' = [repo EXCEPT !.wt[repo.i] = "created", !.branch[repo.i] = TRUE,
                                     !.i = repo.i + 1,
                                     !.pc = IF repo.i + 1 = max_workers THEN "pool" ELSE "setup"]
           [] g = "nonzero" -> repo' = [repo EXCEPT !.pc = "cleanup", !.i = 0]
           [] g = "timeout" -> repo' = [repo EXCEPT !.pc = "raised"]
    /\ UNCHANGED <<shutdown, queuevars, proc, sched, calc>>

\* the except branch: remove_worktree of every worktree created so far,
\* then _run_shared; a removal that exits nonzero is logged only
CleanupCreated ==
    /\ repo.pc = "cleanup"
    /\ IF \E w \in Workers : repo.wt[w] = "created" /\ w \notin repo.rm
       THEN LET w == CHOOSE x \in Workers :
                        /\ repo.wt[x] = "created" /\ x \notin repo.rm
                        /\ \A y \in Workers : (repo.wt[y] = "created" /\ y \notin repo.rm) => x <= y
            IN \E g \in GitOutcomes :
                 CASE g = "ok" -> repo' = [repo EXCEPT !.wt[w] = "removed", !.rm = @ \cup {w}]
                   [] g = "nonzero" -> repo' = [repo EXCEPT !.rm = @ \cup {w}]
                   [] g = "timeout" -> repo' = [repo EXCEPT !.pc = "raised"]
       ELSE repo' = [repo EXCEPT !.pc = "shared"]
    /\ UNCHANGED <<shutdown, queuevars, proc, sched, calc>>

\* pool.submit(worker_loop, wid, config, queue, wt_path) runs in a thread;
\* _run_shared passes no worktree, the worker runs in the workspace
StartWorker(w) ==
    /\ repo.pc \in {"pool", "shared"}
    /\ w \in Active
    /\ repo.st[w] = "idle"
    /\ repo' = [repo EXCEPT !.st[w] = "running",
                            !.cwd[w] = IF repo.pc = "pool" THEN worktree_of(w) ELSE Workspace]
    /\ UNCHANGED <<shutdown, queuevars, proc, sched, calc>>

\* worker_loop returns or raises; its agents may have changed files in cwd
WorkerReturns(w) ==
    /\ repo.st[w] = "running"
    /\ \E changed \in BOOLEAN, how \in {"returned", "raised"} :
         repo' = [repo EXCEPT !.st[w] = how,
                     !.dirty = IF changed /\ repo.cwd[w].kind = "worktree"
                               THEN [@ EXCEPT ![repo.cwd[w].of] = TRUE] ELSE @,
                     !.changed = IF changed /\ repo.cwd[w].kind = "worktree"
                                 THEN [@ EXCEPT ![repo.cwd[w].of] = TRUE] ELSE @,
                     !.writers = IF changed /\ repo.cwd[w] = Workspace
                                 THEN @ \cup {"worker"} ELSE @]
    /\ UNCHANGED <<shutdown, queuevars, proc, sched, calc>>

\* the with block ends: every future is done; f.result() re-raises
PoolJoined ==
    /\ repo.pc \in {"pool", "shared"}
    /\ \A w \in Active : repo.st[w] \in {"returned", "raised"}
    /\ repo' = [repo EXCEPT !.i = 0, !.pc =
                    IF \E w \in Active : repo.st[w] = "raised" THEN "raised"
                    ELSE IF repo.pc = "pool" THEN "commit" ELSE "done"]
    /\ UNCHANGED <<shutdown, queuevars, proc, sched, calc>>

\* commit_and_merge steps 1 to 3 for worker i: status, add, commit (False
\* when it exits nonzero), branch lookup (False when no branch is found)
CommitWorktree ==
    /\ repo.pc = "commit"
    /\ IF ~repo.dirty[repo.i]
       THEN repo' = [repo EXCEPT !.res[repo.i] = "true", !.pc = "remove"]
       ELSE \E g \in GitOutcomes, found \in BOOLEAN :
              CASE g = "ok" ->
                     repo' = [repo EXCEPT !.dirty[repo.i] = FALSE, !.committed[repo.i] = TRUE,
                                 !.res[repo.i] = IF found THEN @ ELSE "false",
                                 !.pc = IF found THEN "merge" ELSE "remove"]
                [] g = "nonzero" -> repo' = [repo EXCEPT !.res[repo.i] = "false", !.pc = "remove"]
                [] g = "timeout" -> repo' = [repo EXCEPT !.pc = "raised"]
    /\ UNCHANGED <<shutdown, queuevars, proc, sched, calc>>

\* step 4: git merge --no-ff <branch> in the workspace begins
MergeBegins ==
    /\ repo.pc = "merge"
    /\ repo' = [repo EXCEPT !.merging = @ \cup {repo.i}, !.pc = "merging"]
    /\ UNCHANGED <<shutdown, queuevars, proc, sched, calc>>

keep_merging(m, w) == m

\* git merge --abort
abort_merge(m, w) == m \ {w}

\* the merge ends: merged, or a conflict (abort, return False), or killed
\* after 60 s with the exception leaving commit_and_merge
MergeEnds ==
    /\ repo.pc = "merging"
    /\ \E g \in GitOutcomes :
         CASE g = "ok" ->
                repo' = [repo EXCEPT !.merging = @ \ {repo.i}, !.res[repo.i] = "true",
                                     !.writers = @ \cup {"merge"}, !.pc = "remove"]
           [] g = "nonzero" ->
                repo' = [repo EXCEPT !.merging = abort_merge(@, repo.i),
                                     !.res[repo.i] = "false", !.pc = "remove"]
           [] g = "timeout" -> repo' = [repo EXCEPT !.pc = "raised"]
    /\ UNCHANGED <<shutdown, queuevars, proc, sched, calc>>

\* remove_worktree(workspace, wt_path) after commit_and_merge, next worker
RemoveWorktree ==
    /\ repo.pc = "remove"
    /\ \E g \in GitOutcomes :
         CASE g = "ok" ->
                repo' = [repo EXCEPT !.wt[repo.i] = "removed", !.rm = @ \cup {repo.i},
                                     !.i = repo.i + 1,
                                     !.pc = IF repo.i + 1 = max_workers THEN "done" ELSE "commit"]
           [] g = "nonzero" ->
                repo' = [repo EXCEPT !.rm = @ \cup {repo.i}, !.i = repo.i + 1,
                                     !.pc = IF repo.i + 1 = max_workers THEN "done" ELSE "commit"]
           [] g = "timeout" -> repo' = [repo EXCEPT !.pc = "raised"]
    /\ UNCHANGED <<shutdown, queuevars, proc, sched, calc>>

\* run_loop with max_workers = 2, use_worktree and a git repository
RepoInit ==
    /\ QueueIdle
    /\ max_workers = 2
    /\ proc = ProcOff /\ sched = SchedOff /\ calc = CalcOff
    /\ repo = RepoStart

RepoNext ==
    \/ CreateWorktree
    \/ CleanupCreated
    \/ \E w \in Workers : StartWorker(w)
    \/ \E w \in Workers : WorkerReturns(w)
    \/ PoolJoined
    \/ CommitWorktree
    \/ MergeBegins
    \/ MergeEnds
    \/ RemoveWorktree

RepoSpec == RepoInit /\ [][RepoNext]_vars

\* ---------------------------------------------------------------- plan mode timeouts (manager.py)
PlanCap == 300
ExecFloor == 60

\* config.timeout, in seconds
Timeouts == {30, 60, 61, 120, 180, 300, 600, 900, 1200}

\* generate_plan: plan_timeout = min(timeout // 3, 300)
plan_timeout(T) == IF T \div 3 < PlanCap THEN T \div 3 ELSE PlanCap

\* int(time.monotonic() - start_time) when generate_plan returns: the child
\* is killed at the deadline, which the poll notices up to a tick later
Elapsed(pt) == {e \in {0, 1, 20, 59, 60, 100, 299, 300, 301} : e <= pt + 1}

full_timeout(T, e) == T

\* run_plan: timeout - int(elapsed), raised to 60 when below
remaining_timeout(T, e) == IF T - e < ExecFloor THEN ExecFloor ELSE T - e

\* run_plan calls generate_plan and returns its result when it failed
GeneratePlan ==
    /\ calc.pc = "start"
    /\ \E ok \in BOOLEAN, e \in Elapsed(plan_timeout(calc.T)) :
         calc' = [calc EXCEPT !.pc = IF ok THEN "planned" ELSE "returned",
                             !.pt = plan_timeout(calc.T), !.ok = ok, !.e = e]
    /\ UNCHANGED <<shutdown, queuevars, proc, repo, sched>>

\* run_plan calls execute_plan with the remaining timeout
ExecutePlan ==
    /\ calc.pc = "planned"
    /\ calc' = [calc EXCEPT !.pc = "executed", !.et = remaining_timeout(calc.T, calc.e)]
    /\ UNCHANGED <<shutdown, queuevars, proc, repo, sched>>

PlanInit ==
    /\ QueueIdle
    /\ max_workers = 1
    /\ proc = ProcOff /\ repo = RepoOff /\ sched = SchedOff
    /\ \E T \in Timeouts : calc = [pc |-> "start", T |-> T, pt |-> 0, ok |-> FALSE, e |-> 0, et |-> 0]

PlanNext == GeneratePlan \/ ExecutePlan

PlanSpec == PlanInit /\ [][PlanNext]_vars

\* ---------------------------------------------------------------- run_loop (loop.py)
\* what the caller asks of run_loop and what the host offers:
\*   continuous    the caller passes continuous=True
\*   use_docker    config.use_docker
\*   docker_ok     check_docker_available() would report (True, ...)
\*   image_ok      ensure_docker_image() would report (True, ...)
\*   pending       the number of *.md files in the task directory
\*   started       the workers started so far
\*   checked       the Docker checks have been made
\*   use_worktree  config.use_worktree
\*   is_git        is_git_repo(workspace)
\*   topology      none, inline, worktrees or shared
\*   dirs          the directory each started worker runs in
LoopStart(c, d, dok, iok, n) ==
    [pc |-> "call", continuous |-> c, use_docker |-> d, docker_ok |-> dok, image_ok |-> iok,
     pending |-> n, started |-> 0, checked |-> FALSE,
     use_worktree |-> FALSE, is_git |-> FALSE, topology |-> "none",
     dirs |-> [w \in Workers |-> NoDir]]

wt_without_git(n, iso, git) == n > 1 /\ iso

\* run_loop: use_wt = max_workers > 1 and use_worktree and is_git_repo
use_wt(n, iso, git) == n > 1 /\ iso /\ git

\* how the setup of _run_with_worktrees ends: every worktree created, a
\* create_worktree raised RuntimeError (fallback to _run_shared), or a git
\* command ran into the limit of _run_git and the exception left run_loop
SetupOutcomes == {"created", "RuntimeError", "timeout"}

\* the workers run_loop starts and where each of them runs
dispatch(n, iso, git, setup) ==
    IF n = 1 THEN [topology |-> "inline", dirs |-> [w \in Workers |-> IF w = 0 THEN Workspace ELSE NoDir]]
    ELSE IF use_wt(n, iso, git) /\ setup = "created"
    THEN [topology |-> "worktrees", dirs |-> [w \in Workers |-> IF w < n THEN worktree_of(w) ELSE NoDir]]
    ELSE [topology |-> "shared", dirs |-> [w \in Workers |-> IF w < n THEN Workspace ELSE NoDir]]

\* run_loop: `if not pending: return` before any worker is started
no_pending(n) == n = 0

\* run_loop(config, approval_store=None): the signature has no continuous
\* parameter (the call raises TypeError), the body makes no Docker check and
\* has no polling; with pending tasks max_workers workers are started
RunLoopCalled ==
    /\ sched.pc = "call"
    /\ IF sched.continuous THEN sched' = [sched EXCEPT !.pc = "raised"]
       ELSE IF no_pending(sched.pending) THEN sched' = [sched EXCEPT !.pc = "returned"]
       ELSE \E setup \in SetupOutcomes :
              IF use_wt(max_workers, sched.use_worktree, sched.is_git) /\ setup = "timeout"
              THEN sched' = [sched EXCEPT !.pc = "raised"]
              ELSE LET d == dispatch(max_workers, sched.use_worktree, sched.is_git, setup)
                   IN sched' = [sched EXCEPT !.pc = "workers", !.started = max_workers,
                                             !.topology = d.topology, !.dirs = d.dirs]
    /\ UNCHANGED <<shutdown, queuevars, proc, repo, calc>>

\* a task file is dropped into the task directory
TaskArrives ==
    /\ sched.pending < MaxPending
    /\ sched' = [sched EXCEPT !.pending = @ + 1]
    /\ UNCHANGED <<shutdown, queuevars, proc, repo, calc>>

\* worker_loop: a worker claims and finishes a task
WorkerTakes ==
    /\ sched.pc = "workers"
    /\ ~shutdown
    /\ sched.pending > 0
    /\ sched' = [sched EXCEPT !.pending = @ - 1]
    /\ UNCHANGED <<shutdown, queuevars, proc, repo, calc>>

\* the workers leave their loops (queue empty, or shutdown) and run_loop returns
WorkersExit ==
    /\ sched.pc = "workers"
    /\ shutdown \/ sched.pending = 0
    /\ sched' = [sched EXCEPT !.pc = "returned"]
    /\ UNCHANGED <<shutdown, queuevars, proc, repo, calc>>

\* the signal handler sets shutdown_event
SignalSet ==
    /\ ~shutdown
    /\ shutdown' = TRUE
    /\ UNCHANGED <<queuevars, sidevars>>

LoopInit ==
    /\ QueueIdle
    /\ max_workers \in {1, 2}
    /\ proc = ProcOff /\ repo = RepoOff /\ calc = CalcOff
    /\ \E c, d, dok, iok, iso, git \in BOOLEAN, n \in 0..MaxPending :
         sched = [LoopStart(c, d, dok, iok, n) EXCEPT !.use_worktree = iso, !.is_git = git]

LoopNext == RunLoopCalled \/ TaskArrives \/ WorkerTakes \/ WorkersExit \/ SignalSet

LoopSpec == LoopInit /\ [][LoopNext]_vars

\* ---------------------------------------------------------------- run_loop with the approval store
\* run_loop hands its approval_store to worker_loop("w0"), to
\* _run_with_worktrees and to _run_shared; the fallback inside
\* _run_with_worktrees calls _run_shared(config, queue) without it
store_passed(n, iso, git, topology) == ~(use_wt(n, iso, git) /\ topology = "shared")

\* _execute_task: _execute_with_approval needs plan_mode, no auto-approve
\* and a store; plan_mode without a store is run_plan
worker_mode(configured, passed) ==
    IF configured = "approval" /\ ~passed THEN "plan" ELSE configured

\* the workers run_loop has dispatched begin their loops
WorkersStart ==
    /\ sched.pc = "workers"
    /\ \A w \in Active : pc[w] = "off"
    /\ pc' = [w \in Workers |-> IF w \in Active THEN "loop" ELSE "off"]
    /\ mode' = worker_mode(mode, store_passed(max_workers, sched.use_worktree,
                                               sched.is_git, sched.topology))
    /\ UNCHANGED <<fs, fs0, shutdown, task, result, calls, budget, hist, max_retries,
                   max_workers, agent, sidevars, opvars, approvalvars>>

\* plan mode, no auto-approve, a store given to run_loop, one pending task
GateInit ==
    /\ fs = [p \in {PendPath(1)} |-> Body]
    /\ fs0 = fs
    /\ shutdown = FALSE
    /\ max_retries = 1
    /\ max_workers \in {1, 2}
    /\ mode = "approval"
    /\ agent = {Success, Outcome(FALSE, ErrBroke)}
    /\ pc = [w \in Workers |-> "off"]
    /\ task = [w \in Workers |-> NoTask]
    /\ result = [w \in Workers |-> NoResult]
    /\ calls = 0
    /\ budget = 0
    /\ hist = {}
    /\ rf = RfOff
    /\ rr = RrOff
    /\ store = {}
    /\ decision = [w \in Workers |-> "pending"]
    /\ event = [w \in Workers |-> FALSE]
    /\ proc = ProcOff /\ repo = RepoOff /\ calc = CalcOff
    /\ \E iso, git \in BOOLEAN :
         sched = [LoopStart(FALSE, FALSE, FALSE, FALSE, 1) EXCEPT !.use_worktree = iso, !.is_git = git]

GateNext ==
    \/ RunLoopCalled
    \/ WorkersStart
    \/ \E w \in Active : WorkerStep(w)
    \/ \E w \in Active : Approve(w)
    \/ \E w \in Active : Reject(w)

GateSpec == GateInit /\ [][GateNext]_vars

\* ---------------------------------------------------------------- retry_failed on a used queue
\* a second task text
Other == <<TextLine("other", -1)>>

\* what fail() left under failed/ for a task of content c that ran out of retries
exhausted_file(c) == fail_content([NoTask EXCEPT !.content = c], ErrBroke, 1)

\* the queue when `retry` is invoked and no worker runs: tasks/failed/ holds
\* one to three files, two of them of the same name with different stamps
\* (a task failed, was written again under its name and failed again), and
\* tasks/ may hold a pending file of that name
ResubmitDirs ==
    {F \cup P : F \in (SUBSET {FailPath(0, 1), FailPath(1, 1), FailPath(0, 2)}) \ {{}},
                P \in SUBSET {PendPath(1)}}

ResubmitInit ==
    /\ \E D \in ResubmitDirs :
         \E body \in [D -> {Body, Other}] :
             fs = [p \in D |-> IF IsFailed(p) THEN exhausted_file(body[p]) ELSE body[p]]
    /\ max_retries = 1
    /\ max_workers = 1
    /\ mode = "direct"
    /\ agent = {Success}
    /\ InitCommon(MaxEvents)

ResubmitNext ==
    \/ \E nm \in Names \cup {0} : RFStart(nm)
    \/ RFWrite
    \/ RFUnlink

ResubmitSpec == ResubmitInit /\ [][ResubmitNext]_vars

\* ---------------------------------------------------------------- properties
\* the positions at which a worker holds the Task claim_next returned to it
Holding == {"read", "exec_run", "plan_run", "submit", "wait", "remove", "returned"}

\* the files that represent task n: pending, running, done or failed
FilesOf(f, n) == {p \in DOMAIN f : p.stem = n}

\* C1: concurrent claim_next calls hand a pending file to at most one worker:
\* no two workers hold the same task at once (as long as no crash has left a
\* second file of a task for retry_failed to queue again), and no task has two
\* running files with different worker ids that are both claims in progress
C1_ClaimedByOne ==
    /\ ~({"crash", "retry"} \subseteq hist) =>
         \A w1, w2 \in Workers :
             (w1 # w2 /\ pc[w1] \in Holding /\ pc[w2] \in Holding)
                 => task[w1].name # task[w2].name
    /\ hist \cap {"crash", "fault"} = {} =>
         \A n \in Names :
             Cardinality({w \in Workers : Exists(fs, RunPath(n, w))
                                          /\ pc[w] # "fail_unlink"}) <= 1

\* two workers have claimed at the same time, and each holds a task
C1_Witness ==
    /\ hist = {}
    /\ pc[0] \in Holding /\ pc[1] \in Holding
    /\ Exists(fs, RunPath(task[0].name, 0)) /\ Exists(fs, RunPath(task[1].name, 1))

\* C2: whatever claim_next, complete, fail, recover_running and retry_failed
\* did, every task of the initial queue is still represented by a file
C2_NoTaskLost == \A p \in DOMAIN fs0 : FilesOf(fs, p.stem) # {}

\* a crash was recovered, one task is done and one has failed for good
C2_Witness ==
    /\ "recover" \in hist
    /\ \E p \in DOMAIN fs : IsDone(p)
    /\ \E p \in DOMAIN fs : IsFailed(p)

\* C3 as stated: at most one file represents a task in every state, the
\* states inside fail(), retry_failed() and recover_running() included
C3_AtMostOneFile == \A n \in Names : Cardinality(FilesOf(fs, n)) <= 1

\* the calls that have written their destination and not yet removed their source
InWindow(n) ==
    Cardinality({w \in Workers : pc[w] = "fail_unlink" /\ task[w].name = n})
        + (IF rf.pc = "unlink" /\ rf.src.stem = n THEN 1 ELSE 0)

\* C3: without a crash, a task is represented by one file, plus one for each
\* fail() or retry_failed() call that has written its destination and not yet
\* unlinked its source
C3_OneFilePlusWindows ==
    hist \cap {"crash", "recover"} = {} =>
        \A n \in Names : Cardinality(FilesOf(fs, n)) <= 1 + InWindow(n)

\* fail() has written the destination and the running file is still there
C3_Witness ==
    \E w \in Workers :
        /\ pc[w] = "fail_unlink"
        /\ Cardinality(FilesOf(fs, task[w].name)) = 2
        /\ hist = {}

\* a step of worker w out of "returned" back to the top of its loop
Finishes(w) == pc[w] = "returned" /\ pc'[w] = "loop"

\* the files of done/ and failed/ are the same before and after the step
ArchivesUnchanged ==
    \A p \in DOMAIN fs \cup DOMAIN fs' :
        (IsDone(p) \/ IsFailed(p)) => (p \in DOMAIN fs /\ p \in DOMAIN fs' /\ fs'[p] = fs[p])

\* C4: when the shutdown signal is set as the execution of a claimed task
\* returns, the task is neither completed nor failed whatever the result: its
\* file goes back to the pending name with the content and the retry count
\* that were claimed, and nothing is written to done/ or failed/
C4_ReleasedOnShutdown ==
    [][\A w \in Workers :
          (Finishes(w) /\ shutdown /\ Exists(fs, RunPath(task[w].name, w))) =>
              /\ ~Exists(fs', RunPath(task[w].name, w))
              /\ Exists(fs', PendPath(task[w].name))
              /\ fs'[PendPath(task[w].name)] = task[w].content
              /\ _extract_retry_count(fs'[PendPath(task[w].name)]) = task[w].retries
              /\ ArchivesUnchanged]_vars

\* an agent ran, the signal is set, and the queue is as it started
C4_Witness ==
    /\ shutdown
    /\ calls >= 1
    /\ hist = {}
    /\ fs = fs0
    /\ \E w \in Workers : pc[w] \in {"loop", "exited"} /\ result[w].success

\* C8, in every state: from the return of the agent to the unlink that ends
\* fail(), the running file of the task exists
C8_RunningKept ==
    \A w \in Workers :
        pc[w] \in {"returned", "fail_unlink"} => Exists(fs, RunPath(task[w].name, w))

\* C8, in every step: a write that raises leaves the running file and creates
\* no file; the unlink is made with the destination written, so the task is
\* still on disk after it; a crash inside fail() changes no file
C8_FailSteps ==
    \A w \in Workers :
        /\ (pc[w] = "returned" /\ pc'[w] = "raised") =>
              /\ fs' = fs
              /\ Exists(fs', RunPath(task[w].name, w))
        /\ (pc[w] = "fail_unlink" /\ pc'[w] = "loop") =>
              /\ FilesOf(fs', task[w].name) # {}
              /\ \A p \in FilesOf(fs, task[w].name) \ {RunPath(task[w].name, w)} :
                     p \in DOMAIN fs' /\ fs'[p] = fs[p]
        /\ (pc[w] \in {"returned", "fail_unlink"} /\ pc'[w] = "crashed") =>
              /\ fs' = fs
              /\ Exists(fs', RunPath(task[w].name, w))

\* C8: at every point of fail(), on the requeue path and on the terminal path,
\* with the write raising or the process crashing between two steps, the
\* running file or the destination exists; when the write raises the running
\* file is still present and no destination has been created
C8_NeverNeither == []C8_RunningKept /\ [][C8_FailSteps]_vars

\* the write of fail() raised: the worker is out of its loop, still with its task
C8_Witness ==
    \E w \in Workers :
        /\ pc[w] = "raised"
        /\ task[w].name # 0
        /\ Exists(fs, RunPath(task[w].name, w))
        /\ FilesOf(fs, task[w].name) = {RunPath(task[w].name, w)}

\* a step of recover_running that handles the running file p
Recovers(p) ==
    /\ rr.pc = "act"
    /\ rr'.pc \in {"check", "done"}
    /\ Head(rr.todo) = p
    /\ Exists(fs, p)

\* C9: a running file without a pending file is renamed back to <stem>.md: the
\* next claim_next returns its content and retry count, the running file is
\* gone, and when recover_running ends no running file is left
C9_RecoveredIntact ==
    [][/\ \A n \in Names, w \in Workers :
            (Recovers(RunPath(n, w)) /\ ~Exists(fs, PendPath(n))) =>
                /\ ~Exists(fs', RunPath(n, w))
                /\ first_pending(fs') <= n
                /\ LET claimed == read_task(claim_rename(fs', n, w), n, w)
                   IN /\ claimed.content = fs[RunPath(n, w)]
                      /\ claimed.retries = _extract_retry_count(fs[RunPath(n, w)])
       /\ (rr.pc = "act" /\ rr'.pc = "done") => RunningFiles(fs') = {}]_vars

\* recover_running has renamed a running file left by a crash
C9_Witness ==
    /\ "crash" \in hist
    /\ rr.how = "renamed"
    /\ rr.pc = "done"
    /\ Exists(fs, PendPath(rr.last.stem))
    /\ RunningFiles(fs) = {}

\* C10: a running file whose pending name exists is deleted and the pending
\* file is left as it is; no step of recover_running changes a pending file
C10_PendingUntouched ==
    [][/\ \A n \in Names, w \in Workers :
            (Recovers(RunPath(n, w)) /\ Exists(fs, PendPath(n))) =>
                /\ DOMAIN fs' = DOMAIN fs \ {RunPath(n, w)}
                /\ \A p \in DOMAIN fs' : fs'[p] = fs[p]
       /\ (rr.pc = "act" /\ rr'.pc \in {"check", "done"}) =>
             \A n \in Names :
                 Exists(fs, PendPath(n)) =>
                     (Exists(fs', PendPath(n)) /\ fs'[PendPath(n)] = fs[PendPath(n)])]_vars

\* recover_running has deleted a running file whose pending file exists
C10_Witness ==
    /\ rr.how = "deleted"
    /\ rr.pc \in {"check", "done"}
    /\ Exists(fs, PendPath(rr.last.stem))
    /\ ~Exists(fs, rr.last)

\* the lines of kind k in content c
CountLines(c, k) == Cardinality({i \in 1..Len(c) : c[i].k = k})

\* the retry count the only task of the queue started with
StartRetries == _extract_retry_count(fs0[CHOOSE p \in DOMAIN fs0 : TRUE])

\* C6: with max_retries = M, a task that starts with no retry marker (or with
\* a marker below M) is requeued on each failure before the M-th and moved to
\* failed/ on exactly the M-th, recorded as "Retries exhausted: M/M": a pending
\* file has seen fewer than M failures, a failed file exactly M
C6_ExhaustsAtM ==
    StartRetries < max_retries =>
        \A p \in DOMAIN fs :
            /\ IsPending(p) =>
                  StartRetries + CountLines(fs[p], "FAILED") < max_retries
            /\ IsFailed(p) =>
                  /\ StartRetries + CountLines(fs[p], "FAILED") + 1 = max_retries
                  /\ \E i \in 1..Len(fs[p]) :
                        /\ fs[p][i].k = "Retries exhausted"
                        /\ fs[p][i].a = max_retries
                        /\ fs[p][i].b = max_retries

\* C7: one worker, one task without a retry marker, no shutdown, an agent
\* that always fails: the agent is invoked at most M times, and when
\* worker_loop has returned it was invoked exactly M times, one file is in
\* failed/ and none is pending or running
C7_StopsAfterM ==
    StartRetries = 0 =>
        /\ calls <= max_retries
        /\ pc[0] = "exited" =>
              /\ calls = max_retries
              /\ Cardinality(FailedFiles(fs)) = 1
              /\ \A p \in DOMAIN fs : IsFailed(p)

\* a worker that sees the signal at the top of its loop leaves the loop
\* without a claim, and a worker that has left stays out
C5_NoClaimAfterSignal ==
    \A w \in Workers :
        /\ (pc[w] = "loop" /\ shutdown /\ pc'[w] # pc[w]) => pc'[w] = "exited"
        /\ pc[w] = "exited" => pc'[w] = "exited"

\* C5: once the shutdown signal is set, every worker eventually exits
\* worker_loop, whether it was about to claim, waiting on a child process or
\* waiting for an approval decision; the signal stays set, and a worker that
\* has observed it at the top of its loop makes no further claim
C5_ExitsOnShutdown ==
    /\ shutdown ~> (\A w \in Active : pc[w] = "exited")
    /\ [][shutdown => shutdown']_vars
    /\ [][C5_NoClaimAfterSignal]_vars

\* the signal came while a plan waited for approval: both workers are out and
\* the task is pending again
C5_Witness ==
    /\ shutdown
    /\ mode = "approval"
    /\ \A w \in Active : pc[w] = "exited"
    /\ \E w \in Active : result[w].error = ErrApprovalTimeout
    /\ fs = fs0

\* ---------------------------------------------------------------- C11
\* the kinds of line that fail() adds to a task file
MarkerKinds == {"RETRY", "FAILED", "FINAL FAILURE", "Error", "Retries exhausted"}

\* what claim_next returns to worker w for the pending file n of directory f
claimed(f, n, w) == read_task(claim_rename(f, n, w), n, w)

\* C11: when retry_failed has written a failed task back into the queue, the
\* task that claim_next returns for it has the original body verbatim, no
\* marker line, retry count 0 and the original name
C11_RoundTrip ==
    [][(rf.pc = "write" /\ rf'.pc = "unlink") =>
          LET t == claimed(fs', rf'.src.stem, 0)
          IN /\ t.name = rf'.src.stem
             /\ t.content = fs0[PendPath(t.name)]
             /\ \A i \in 1..Len(t.content) : t.content[i].k \notin MarkerKinds
             /\ t.retries = 0]_vars

\* C11, for a body that starts and ends with text and an error text of one
\* line: the round trip gives the body back
C11_OneLineRoundTrip ==
    [][(/\ rf.pc = "write" /\ rf'.pc = "unlink"
        /\ Outcome(FALSE, ErrLines) \notin agent
        /\ \A p \in DOMAIN fs0 : fs0[p] = strip(fs0[p])) =>
          LET t == claimed(fs', rf'.src.stem, 0)
          IN /\ t.name = rf'.src.stem
             /\ t.content = fs0[PendPath(t.name)]
             /\ t.retries = 0]_vars

\* ---------------------------------------------------------------- C12, C13
\* wait() of worker w returns in this step
WaitReturns(w) == pc[w] = "wait" /\ pc'[w] = "remove"

\* wait() does not return true while the decision is pending, and returns
\* true once a decision has been made
C12_WaitFollowsDecision ==
    [][\A w \in Workers :
          WaitReturns(w) => (result'[w].approved <=> decision[w] # "pending")]_vars

\* C12: wait() does not return true before approve() or reject(); once a
\* decision has been made wait() returns true, and the decision read after
\* wait() has returned true is the decision that had been made
C12_WaitThenSameDecision ==
    [][\A w \in Workers :
          /\ WaitReturns(w) => (result'[w].approved <=> decision[w] # "pending")
          /\ (pc[w] = "remove" /\ result[w].approved) => decision'[w] = decision[w]]_vars

\* C13: the decision of an approval record changes at most once, from pending
\* to approved or rejected, whatever approve and reject calls follow
C13_DecidedOnce ==
    [][\A w \in Workers :
          (w \in store /\ decision[w] # "pending") => decision'[w] = decision[w]]_vars

\* ---------------------------------------------------------------- C14
\* claim_next of worker w renames a file in this step
Claims(w) == pc[w] = "claim" /\ pc'[w] = "read"

\* no task has gone back into the queue so far: fail() files every failure
\* under failed/, no release, no recover_running, no retry_failed, no fault
NoRequeue == max_retries = 1 /\ ~shutdown /\ hist = {}

\* the tasks of the initial queue that have left it
ClaimedBefore == {m \in Names : Exists(fs0, PendPath(m)) /\ ~Exists(fs, PendPath(m))}

\* C14: a claim takes the smallest pending name at the time of the call, and
\* absent re-queues every task claimed before it has a smaller name, so the
\* tasks a worker claims come in ascending order of their names
C14_SmallestFirst ==
    [][\A w \in Workers :
          Claims(w) =>
             /\ task'[w].name \in Pending(fs)
             /\ \A m \in Pending(fs) : task'[w].name <= m
             /\ Exists(fs', RunPath(task'[w].name, w))
             /\ ~Exists(fs', PendPath(task'[w].name))
             /\ NoRequeue => \A m \in ClaimedBefore : m < task'[w].name]_vars

\* the first task is archived and a worker holds the second, with no re-queue
C14_Witness ==
    /\ NoRequeue
    /\ \E p \in DOMAIN fs : p.stem = 1 /\ (IsDone(p) \/ IsFailed(p))
    /\ \E w \in Workers : pc[w] \in Holding /\ task[w].name = 2

\* ---------------------------------------------------------------- C15
\* claim_next of worker w, past its rename, ends in this step
ClaimEnds(w) == pc[w] = "read" /\ pc'[w] # "read"

\* C15: a pending file of more than 1 MiB is not claimed: claim_next returns
\* no task and leaves no running file tagged with the caller; a file within
\* the limit is claimed, the task returned carries its content
C15_OversizedNotClaimed ==
    [][\A w \in Workers :
          (ClaimEnds(w) /\ Exists(fs, RunPath(task[w].name, w))) =>
             IF Oversized(fs[RunPath(task[w].name, w)])
             THEN /\ task'[w] = NoTask
                  /\ ~Exists(fs', RunPath(task[w].name, w))
             ELSE Undecodable(fs[RunPath(task[w].name, w)])
                  \/ /\ task'[w] = read_task(fs, task[w].name, w)
                     /\ pc'[w] \in Holding]_vars

\* the parts of C15 that the code keeps: no task is returned for an oversized
\* file, and a file within the limit is claimed with its content
C15_OversizedNoTask ==
    [][\A w \in Workers :
          (ClaimEnds(w) /\ Exists(fs, RunPath(task[w].name, w))) =>
             IF Oversized(fs[RunPath(task[w].name, w)])
             THEN task'[w] = NoTask /\ pc'[w] \notin Holding
             ELSE Undecodable(fs[RunPath(task[w].name, w)])
                  \/ /\ task'[w] = read_task(fs, task[w].name, w)
                     /\ pc'[w] \in Holding]_vars

\* ---------------------------------------------------------------- C16
\* claim_next of worker w finds a pending file and its rename fails
RenameFails(w) ==
    /\ pc[w] = "claim" /\ pc'[w] \notin {"claim", "read", "crashed"}
    /\ Pending(fs) # {}

\* C16: when the rename pending -> running fails, claim_next returns no task
\* and raises nothing, and no file is created, removed or modified
C16_FailedRenameNoChange ==
    [][\A w \in Workers :
          RenameFails(w) =>
             /\ fs' = fs
             /\ task'[w] = NoTask
             /\ pc'[w] = "exited"]_vars

\* a rename has failed at the first claim of the run: the directory is as
\* it was at the start, and the worker has returned from worker_loop
C16_Witness ==
    /\ hist = {"fault"}
    /\ calls = 0
    /\ ~shutdown
    /\ fs = fs0
    /\ \E w \in Workers : pc[w] = "exited" /\ Pending(fs) # {}

\* ---------------------------------------------------------------- C17
\* complete(task) of worker w runs in this step
Completes(w) ==
    /\ pc[w] = "returned" /\ pc'[w] # "returned"
    /\ outcome_action(shutdown, result[w]) = "complete"
    /\ pc'[w] # "crashed"

\* C17: complete(task) moves the running file to done/<timestamp>_<stem>.md:
\* the running file is gone, exactly one file is new and it is in done/ with
\* the content of the running file, and no other file changes; when the
\* rename fails nothing is raised and the running file stays
C17_CompleteMoves ==
    [][\A w \in Workers :
          (Completes(w) /\ Exists(fs, RunPath(task[w].name, w))) =>
             /\ pc'[w] = "loop"
             /\ IF budget' < budget
                THEN fs' = fs
                ELSE LET r == RunPath(task[w].name, w)
                     IN /\ ~Exists(fs', r)
                        /\ \E d \in DOMAIN fs' \ DOMAIN fs :
                              /\ IsDone(d) /\ d.stem = task[w].name
                              /\ DOMAIN fs' = (DOMAIN fs \ {r}) \cup {d}
                              /\ fs'[d] = fs[r]
                        /\ \A q \in DOMAIN fs \ {r} : fs'[q] = fs[q]]_vars

\* a task has been completed: its file is in done/ with the content it was
\* queued with and no running file of it is left
C17_Witness ==
    /\ hist = {}
    /\ \E p \in DOMAIN fs :
          /\ IsDone(p)
          /\ fs[p] = fs0[PendPath(p.stem)]
          /\ \A w \in Workers : ~Exists(fs, RunPath(p.stem, w))
          /\ ~Exists(fs, PendPath(p.stem))

\* ---------------------------------------------------------------- C18
\* the lines of content c that are not retry markers, as kind and text
TextOf(c) ==
    LET F[i \in 0..Len(c)] ==
            IF i = 0 THEN <<>>
            ELSE IF c[i].k = "RETRY" THEN F[i - 1]
            ELSE Append(F[i - 1], <<c[i].k, c[i].t>>)
    IN F[Len(c)]

\* the files under failed/ are the same, with the same content
FailedUnchanged ==
    /\ FailedFiles(fs') = FailedFiles(fs)
    /\ \A p \in FailedFiles(fs) : fs'[p] = fs[p]

\* the write of fail() on its requeue branch
RequeueWritten(w) ==
    LET t == task[w]
        e == result[w].error
        c == fs'[PendPath(t.name)]
        h == 1 + Len(ErrorLines(e))
        rest == SubSeq(c, h + 1, Len(c))
    IN /\ Exists(fs', PendPath(t.name))
       /\ c[1] = FailedLine
       /\ SubSeq(c, 2, h) = ErrorLines(e)
       /\ \E i \in 1..Len(rest) : rest[i] = RetryLine(t.retries + 1)
       /\ \A i \in 1..Len(rest) : rest[i].k = "RETRY" => rest[i].m = t.retries + 1
       /\ TextOf(rest) = TextOf(t.content)
       /\ FailedUnchanged

\* C18: when task.retries + 1 < max_retries, fail() leaves the task pending
\* under its original name: a FAILED header and the error text, then the
\* previous content with a retry marker equal to task.retries + 1; it removes
\* the running file and writes nothing under failed/
C18_RequeueKeepsTask ==
    [][\A w \in Workers :
          requeues(task[w], max_retries) =>
             /\ (pc[w] = "returned" /\ pc'[w] = "fail_unlink") => RequeueWritten(w)
             /\ (pc[w] = "fail_unlink" /\ pc'[w] = "loop") =>
                   /\ ~Exists(fs', RunPath(task[w].name, w))
                   /\ Exists(fs', PendPath(task[w].name))
                   /\ fs'[PendPath(task[w].name)] = fs[PendPath(task[w].name)]
                   /\ FailedUnchanged]_vars

\* fail() has requeued a task that had no marker: the pending file starts
\* with the header and carries the marker 1, nothing is running or failed
C18_Witness ==
    /\ pc[0] = "loop"
    /\ FailedFiles(fs) = {}
    /\ \E n \in Names :
          /\ Exists(fs, PendPath(n))
          /\ ~Exists(fs, RunPath(n, 0))
          /\ fs[PendPath(n)][1] = FailedLine
          /\ \E i \in 1..Len(fs[PendPath(n)]) : fs[PendPath(n)][i] = RetryLine(1)
          /\ TextOf(fs[PendPath(n)]) = <<<<"FAILED", "">>, <<"Error", "broke">>>> \o TextOf(fs0[PendPath(n)])

\* ---------------------------------------------------------------- C19
\* worker_loop of worker w returns in this step
LoopReturns(w) == pc[w] \in {"loop", "claim", "read"} /\ pc'[w] = "exited"

\* C19: a worker leaves worker_loop only when the shutdown signal is set or
\* when its last claim attempt found no pending file; it does not leave while
\* the signal is unset and tasks are pending
C19_ExitsOnlyWhenEmpty ==
    [][\A w \in Workers :
          LoopReturns(w) =>
             \/ pc[w] = "loop" /\ shutdown
             \/ pc[w] = "claim" /\ Pending(fs) = {}]_vars

\* C19 for the oversized file alone: a worker whose claim met an oversized
\* file does not leave while tasks are pending
C19_OversizedKeepsLooping ==
    [][\A w \in Workers :
          (LoopReturns(w) /\ pc[w] = "read") => Pending(fs) = {}]_vars

\* ---------------------------------------------------------------- C20
\* run_loop raises: f.result() re-raises what worker_loop raised, and with
\* one worker the exception of worker_loop is that of run_loop
run_loop_raises == \E w \in Active : pc[w] = "raised"

\* C20: a failure local to one task (the agent fails or times out, the file
\* is oversized or undecodable, the write that records the failure fails)
\* ends no worker with an exception, so run_loop does not raise
C20_LocalFailureContained == ~run_loop_raises

\* ---------------------------------------------------------------- C21
\* the tasks the run started with
Tasks0 == {n \in Names : Exists(fs0, PendPath(n))}

\* every worker has returned, every task of the start is in done/ once, with
\* its content, nothing is pending, running or failed, and the agent ran
\* once per task
RunDone ==
    /\ \A w \in Active : pc[w] = "exited"
    /\ \A p \in DOMAIN fs : IsDone(p) /\ p.stem \in Tasks0
    /\ \A n \in Tasks0 :
          /\ Cardinality({p \in DOMAIN fs : p.stem = n}) = 1
          /\ \A p \in DOMAIN fs : p.stem = n => fs[p] = fs0[PendPath(n)]
    /\ calls = Cardinality(Tasks0)

\* C21: with an agent that always succeeds and no shutdown signal, the run
\* terminates with every task in done/ under a timestamped name with its
\* stem, no file pending or running, and one agent invocation per task
C21_AllDone ==
    /\ (agent = {Success}) => <>(shutdown \/ RunDone)
    /\ [](agent = {Success} /\ ~shutdown => calls <= Cardinality(Tasks0))
    /\ [][(agent = {Success} /\ RunDone /\ ~shutdown') => RunDone']_vars

\* two tasks have been run to done/ by two workers without a signal
C21_Witness ==
    /\ agent = {Success}
    /\ ~shutdown
    /\ Tasks0 = Names
    /\ max_workers = 2
    /\ RunDone

\* ---------------------------------------------------------------- C22
\* the error lines of content c that carry the text of error e
ErrorCount(c, e) == Cardinality({i \in 1..Len(c) : c[i].k = "Error" /\ c[i].t = e.t})

\* the run is over: the task is in failed/ as a final failure, nothing is
\* pending or running, every worker has returned
RejectedOut ==
    /\ \A w \in Active : pc[w] = "exited"
    /\ Cardinality(DOMAIN fs) = 1
    /\ \A p \in DOMAIN fs :
          /\ IsFailed(p) /\ p.stem = 1
          /\ fs[p][1] = FinalLine
          /\ \E i \in 1..Len(fs[p]) : fs[p][i] = ExhaustedLine(max_retries, max_retries)

\* C22: in plan mode with manual approval and every plan rejected,
\* execute_plan is never invoked, a rejection that the worker reads ends the
\* attempt as a failure with the error "user rejected plan", fail() records
\* that error in the task file, and the task ends in failed/ once the
\* retries are used up
C22_RejectedNeverExecutes ==
    /\ [](\A w \in Workers : pc[w] # "exec_run")
    /\ [][\A w \in Workers :
            /\ (pc[w] = "remove" /\ pc'[w] # "remove" /\ result[w].approved) =>
                  /\ pc'[w] = "returned"
                  /\ result'[w] = Outcome(FALSE, ErrRejected)
            /\ (pc[w] = "returned" /\ pc'[w] = "fail_unlink"
                 /\ result[w] = Outcome(FALSE, ErrRejected)) =>
                  \E p \in DOMAIN fs' :
                     /\ p.stem = task[w].name
                     /\ IsPending(p) \/ IsFailed(p)
                     /\ fs'[p][2] = ErrorLine(ErrRejected)
                     /\ ErrorCount(fs'[p], ErrRejected)
                            = 1 + ErrorCount(task[w].content, ErrRejected)]_vars
    /\ <>RejectedOut

\* max_retries plans were rejected and the task is in failed/ with that many
\* "user rejected plan" errors
C22_Witness ==
    /\ RejectedOut
    /\ max_retries = MaxRetriesBound
    /\ \A p \in DOMAIN fs : ErrorCount(fs[p], ErrRejected) = max_retries

\* ---------------------------------------------------------------- C23
\* the four ways _run_claude returns, told apart by what was done to the child
OutcomeIs(k) ==
    LET r == proc.res
    IN CASE k = "success" ->
              /\ r.success /\ r.error = "" /\ r.return_code = 0
              /\ proc.rc = 0 /\ proc.sigs = <<>>
         [] k = "exit code" ->
              /\ ~r.success /\ r.error = "exit code"
              /\ r.code = proc.rc /\ proc.rc # 0 /\ r.stderr = proc.stderr
              /\ proc.sigs = <<>>
         [] k = "timeout" ->
              /\ ~r.success /\ r.error = "timeout"
              /\ proc.sigs = <<"kill">>
         [] k = "interrupted" ->
              /\ ~r.success /\ r.error = "interrupted"
              /\ proc.sigs \in {<<"term">>, <<"term", "kill">>}
              /\ r.return_code = proc.rc

OutcomeKinds == {"success", "exit code", "timeout", "interrupted"}

\* C23, in every state: a call that has returned ended in exactly one of the
\* four outcomes, each with its own error; the child was sent SIGTERM only
\* on the interrupted outcome and SIGKILL alone only on the timeout outcome
C23_Outcome ==
    /\ proc.pc # "raised"
    /\ proc.pc = "done" =>
          /\ Cardinality({k \in OutcomeKinds : OutcomeIs(k)}) = 1
          /\ proc.child = "exited"

\* the same for the calls that return a result
C23_ReturnedOutcome ==
    proc.pc = "done" =>
        /\ Cardinality({k \in OutcomeKinds : OutcomeIs(k)}) = 1
        /\ proc.child = "exited"

\* C23, step by step: with the child still running and the signal set the
\* loop takes the interrupt path, whatever the deadline; the interrupt path
\* ends as interrupted; SIGKILL is sent only to a child that has not exited
C23_Steps ==
    /\ (proc.pc = "poll" /\ proc'.pc # "poll" /\ proc.child = "running" /\ shutdown)
          => proc'.pc = "grace" /\ proc'.sigs = <<"term">>
    /\ (proc.pc = "grace" /\ proc'.pc = "done") => proc'.res.error = "interrupted"
    /\ Len(proc'.sigs) > Len(proc.sigs) /\ proc'.sigs[Len(proc'.sigs)] = "kill"
          => proc.child = "running"

\* C23: one call of the process manager after the spawn ends in exactly one
\* of success, nonzero exit (stderr in the error), timeout (killed at once)
\* and interrupted (terminated, killed only after the grace window); an
\* interruption is never reported as a timeout or as a nonzero exit
C23_FourOutcomes == []C23_Outcome /\ [][C23_Steps]_vars

\* C23 without the exit code 0 whose stdout the parser cannot take
C23_FourOutcomesReturned == []C23_ReturnedOutcome /\ [][C23_Steps]_vars

\* ---------------------------------------------------------------- C30
\* C30: for every sequence of stdout lines of a child that exited with code
\* 0, parsing raises nothing and returns a successful result; a line that is
\* not one of the recognized events adds at most plain text
C30_ParseNeverRaises ==
    calc.pc = "parsed" => ~calc.out.raised /\ calc.out.success

\* C30 for lines that are blank, not JSON, or JSON objects whose fields have
\* the expected types: parsing returns a successful result
C30_ParseObjects ==
    (calc.pc = "parsed"
     /\ \A i \in 1..Len(calc.lines) :
            calc.lines[i] \notin {"scalar", "null content", "null input"})
        => ~calc.out.raised /\ calc.out.success

\* a create_worktree of the setup loop did not succeed
CreateFails == repo.pc = "setup" /\ repo'.pc \notin {"setup", "pool"}

\* the worktrees this run has created and not removed
Standing == {w \in Workers : repo.wt[w] = "created"}

InRemoved(w) ==
    /\ repo.st[w] = "running"
    /\ repo.cwd[w].kind = "worktree"
    /\ repo.wt[repo.cwd[w].of] # "created"

\* C24: when create_worktree fails for a worker the run does not abort: the
\* worktrees created so far are removed before any worker starts, then
\* max_workers workers run in the workspace; no worker runs in a removed worktree
C24_FailedSetupFallsBack ==
    [][ /\ CreateFails => repo'.pc = "cleanup"
        /\ repo.pc = "cleanup" => repo'.pc \in {"cleanup", "shared"}
        /\ repo'.pc = "shared" =>
              \/ Standing' = {}
              \/ \E w \in Workers : repo'.st[w] # "idle"
        /\ (repo.pc = "shared" /\ repo'.pc = "done") =>
              \A w \in Workers : (repo'.cwd[w] = Workspace) <=> (w \in Active)
        /\ \A w \in Workers : ~InRemoved(w)' ]_vars

\* C24 for the failure create_worktree signals itself (RuntimeError on a
\* nonzero exit status) and removals that do what they are asked
C24_CaughtFailureFallsBack ==
    [][ /\ (CreateFails /\ repo'.pc # "raised") => repo'.pc = "cleanup"
        /\ (repo'.pc = "shared" /\ Standing' # {}) =>
              \/ \E w \in Workers : repo'.st[w] # "idle"
              \/ repo'.rm = Standing'
        /\ (repo.pc = "shared" /\ repo'.pc = "done") =>
              \A w \in Workers : (repo'.cwd[w] = Workspace) <=> (w \in Active)
        /\ \A w \in Workers : ~InRemoved(w)' ]_vars

\* the merge of worker i's branch ends without having merged
MergeFails == repo.pc = "merging" /\ repo'.pc # "merging" /\ repo'.res[repo.i] # "true"

\* C25: a failed merge is aborted (no merge in progress), commit_and_merge
\* returns False and the branch stays; the scheduler goes on to remove this
\* worktree and to merge and remove every remaining one
C25_FailedMergeAborted ==
    [][ /\ MergeFails =>
              /\ repo'.merging = {}
              /\ repo'.res[repo.i] = "false"
              /\ repo'.branch[repo.i]
              /\ repo'.pc = "remove"
        /\ (repo.pc = "remove" /\ repo'.pc # "raised") =>
              /\ repo.i \in repo'.rm
              /\ repo'.pc = IF repo.i + 1 = max_workers THEN "done" ELSE "commit"
              /\ repo'.i = repo.i + 1 ]_vars

\* C25 for a merge that exits nonzero (a conflict)
C25_ConflictAborted ==
    [][ /\ (MergeFails /\ repo'.pc # "raised") =>
              /\ repo'.merging = {}
              /\ repo'.res[repo.i] = "false"
              /\ repo'.branch[repo.i]
              /\ repo'.pc = "remove"
        /\ (repo.pc = "remove" /\ repo'.pc # "raised") =>
              /\ repo.i \in repo'.rm
              /\ repo'.pc = IF repo.i + 1 = max_workers THEN "done" ELSE "commit"
              /\ repo'.i = repo.i + 1 ]_vars

\* merges wait for the workers, one at a time; one worker per worktree
MergeDiscipline ==
    /\ repo.merging # {} => \A w \in Workers : repo.st[w] # "running"
    /\ Cardinality(repo.merging) <= 1
    /\ \A w1, w2 \in Workers :
          (w1 # w2 /\ repo.cwd[w1].kind = "worktree") => repo.cwd[w1] # repo.cwd[w2]

Isolated == \A w \in Workers : repo.cwd[w] # Workspace

PlanPhase ==
    /\ calc.pc # "start" => calc.pt \in {calc.T \div 3, 300} /\ calc.pt <= calc.T \div 3 /\ calc.pt <= 300
    /\ calc.pc = "executed" =>
          /\ calc.ok
          /\ calc.et \in {60, calc.T - calc.e} /\ calc.et >= 60 /\ calc.et >= calc.T - calc.e
    /\ calc.pc = "returned" => ~calc.ok /\ calc.et = 0

\* C29 as stated: the plan phase gets min(T div 3, 300); the execution runs
\* only after a successful plan, with max(60, T - whole seconds elapsed),
\* never with the full T once time has elapsed
C29_NeverFullTimeout ==
    /\ PlanPhase
    /\ (calc.pc = "executed" /\ calc.e >= 1) => calc.et # calc.T

\* C29 amended: the plan phase gets min(T div 3, 300); the execution runs
\* only after a successful plan, with max(60, T - whole seconds elapsed);
\* that is less than T once a second has elapsed when T > 60, and it is 60,
\* which is T or more, when T <= 60
C29_RemainingTimeout ==
    /\ PlanPhase
    /\ (calc.pc = "executed" /\ calc.e >= 1 /\ calc.T > 60) => calc.et < calc.T
    /\ (calc.pc = "executed" /\ calc.T <= 60) => calc.et = 60

C29_Witness ==
    /\ calc.pc = "executed"
    /\ calc.T = 600 /\ calc.pt = 200 /\ calc.e = 100 /\ calc.et = 500

LoopEnded == sched.pc \in {"returned", "raised"}

\* C27: in continuous mode run_loop ends only after the shutdown signal, and
\* a task that arrives after the queue drained gets a worker; without
\* continuous mode and without a pending task it returns at once and starts
\* no worker
C27_ContinuousUntilShutdown ==
    [][ /\ (sched.continuous /\ LoopEnded') => shutdown'
        /\ (sched.continuous /\ sched.pc = "call") => sched'.pc # "raised"
        /\ (~sched.continuous /\ sched.pc = "call" /\ sched.pending = 0 /\ sched'.pc # "call") =>
              sched'.pc = "returned" /\ sched'.started = 0 ]_vars

\* C27 without continuous mode: no pending task, no worker, return at once
C27_EmptyReturnsAtOnce ==
    [][ (~sched.continuous /\ sched.pc = "call" /\ sched.pending = 0 /\ sched'.pc # "call") =>
              sched'.pc = "returned" /\ sched'.started = 0 ]_vars

CheckFails == sched.use_docker /\ ~(sched.docker_ok /\ sched.image_ok)

\* C28: with Docker enabled and a failing availability or image check
\* run_loop, called with a task pending, raises and starts no worker; with
\* Docker disabled no check is made and the run proceeds
C28_FailedCheckAborts ==
    [][ /\ (CheckFails /\ sched.pc = "call" /\ sched.pending > 0 /\ sched'.pc # "call") =>
              sched'.pc = "raised" /\ sched'.started = 0
        /\ ~sched.use_docker => ~sched'.checked
        /\ (~sched.use_docker /\ ~sched.continuous /\ sched.pc = "call"
                /\ sched.pending > 0 /\ sched'.pc \notin {"call", "raised"}) =>
              sched'.pc = "workers" /\ sched'.started = max_workers ]_vars

\* C28 with Docker disabled
C28_DisabledProceeds ==
    [][ /\ ~sched.use_docker => ~sched'.checked
        /\ (~sched.use_docker /\ ~sched.continuous /\ sched.pc = "call"
                /\ sched.pending > 0 /\ sched'.pc \notin {"call", "raised"}) =>
              sched'.pc = "workers" /\ sched'.started = max_workers ]_vars

Started == {w \in Workers : sched.dirs[w] # NoDir}

WantsWorktrees == sched.use_worktree /\ sched.is_git

\* what holds of every run_loop that has left its call
TopologyBasics ==
    /\ sched.topology = "none" <=> Started = {}
    /\ (sched.pc = "returned" /\ sched.topology = "none") => sched.started = 0
    /\ (sched.topology # "none" /\ max_workers = 1) =>
          Started = {0} /\ sched.dirs[0] = Workspace /\ sched.topology = "inline"
    /\ (sched.topology # "none" /\ max_workers > 1) =>
          /\ Started = 0..(max_workers - 1)
          /\ sched.started = max_workers
          /\ \/ \A w \in Started : sched.dirs[w] = worktree_of(w)
             \/ \A w \in Started : sched.dirs[w] = Workspace

OwnWorktrees == \A w \in Started : sched.dirs[w] = worktree_of(w)

ExecutionStarts(w) == pc[w] # "exec_run" /\ pc'[w] = "exec_run"

\* C32: with plan mode, no auto-approve and a store given to run_loop, the
\* execution of a task starts only after its plan was approved, in every
\* topology, the fallback after a failed create_worktree included
C32_ExecutionAfterApproval ==
    [][\A w \in Workers : ExecutionStarts(w) => decision[w] = "approved"]_vars

\* C32 in the topologies in which the store reaches the workers
C32_ApprovalWhereStorePassed ==
    [][\A w \in Workers :
          (ExecutionStarts(w) /\ store_passed(max_workers, sched.use_worktree,
                                              sched.is_git, sched.topology))
             => decision[w] = "approved" /\ result[w].approved]_vars

RunEnded == repo.pc \in {"done", "raised"}

\* C33: when the run has ended, normally, after a failed create_worktree or
\* with the exception of a worker, no worktree it created is left
C33_WorktreesRemoved == RunEnded => Standing = {}

\* C33 for the run a worker's exception ends
C33_RemovedAfterWorkerRaised ==
    (repo.pc = "raised" /\ \E w \in Workers : repo.st[w] = "raised") => Standing = {}

\* the worktrees of a run that reaches its end are removed or were asked to be
C33_RemovalAttemptedAtEnd == repo.pc = "done" => Standing \subseteq repo.rm

\* commit_and_merge and remove_worktree have run for worker w
Processed(w) == repo.res[w] # "none" /\ w \in repo.rm

Merged(w) == repo.res[w] = "true" /\ repo.committed[w]

\* C34: after commit_and_merge and remove_worktree the changes of a worktree
\* are merged or are a commit on the worker's branch, also when the commit
\* or the branch lookup failed
C34_ChangesKept ==
    \A w \in Workers :
       (Processed(w) /\ repo.changed[w]) => Merged(w) \/ (repo.committed[w] /\ repo.branch[w])

\* C34 for a worktree whose commit succeeded
C34_CommittedChangesKept ==
    \A w \in Workers :
       (Processed(w) /\ repo.changed[w] /\ ~repo.dirty[w]) =>
           Merged(w) \/ (repo.committed[w] /\ repo.branch[w])

\* C35: a result is returned only when the child has exited, and a poll
\* tick that finds the child running looks at the shutdown signal before it
\* looks at the deadline
C35_ChildExitedOnReturn ==
    [][ /\ proc'.pc = "done" => proc'.child = "exited" /\ proc'.rc # NoCode
        /\ (proc.pc = "poll" /\ proc'.pc # "poll" /\ proc.child = "running" /\ shutdown) =>
              proc'.pc = "grace" /\ proc'.sigs = <<"term">>
        /\ (proc.pc = "poll" /\ proc'.pc = "done" /\ proc'.res.error = "timeout") =>
              ~shutdown /\ proc.late ]_vars

C35_Witness ==
    /\ proc.pc = "done"
    /\ proc.res.error = "interrupted"
    /\ proc.late
    /\ proc.sigs = <<"term", "kill">>
    /\ proc.child = "exited"

\* recover_running has run to its end after a crash, before any restart
RecoveredAfterCrash ==
    /\ "crash" \in hist
    /\ rr.pc = "done"
    /\ \A w \in Workers : pc[w] \in Stopped

\* C36: after a crash in fail() and recover_running, a task is one file: not
\* both in failed/ and pending, and its retry count has not gone down
C36_OneFileAfterRecovery ==
    RecoveredAfterCrash =>
        \A n \in Names :
            /\ Cardinality(FilesOf(fs, n)) <= 1
            /\ ~(Exists(fs, PendPath(n)) /\ \E p \in FailedFiles(fs) : p.stem = n)
            /\ (Exists(fs, PendPath(n)) /\ Exists(fs0, PendPath(n))) =>
                  _extract_retry_count(fs[PendPath(n)]) >= _extract_retry_count(fs0[PendPath(n)])

\* C37: the record a worker submitted is in the store only while the worker
\* waits for the decision and until it removes it, so a worker has at most
\* one record and none when it finishes the task; approve and reject find no
\* record after the removal, and the decision the worker holds stays as it is
C37_RecordRemoved ==
    [][\A w \in Workers :
          /\ w \in store' => pc'[w] \in {"wait", "remove"}
          /\ (pc[w] = "remove" /\ pc'[w] # "remove" /\ pc'[w] # "crashed") => w \notin store'
          /\ (w \notin store /\ w \notin store') =>
                decision'[w] = decision[w] /\ event'[w] = event[w] ]_vars

C37_Witness ==
    /\ store = {}
    /\ \E w \in Workers :
         /\ pc[w] = "exec_run" /\ decision[w] = "approved" /\ event[w]
         /\ task[w].retries = 1

\* C38: once fail() has written a task back, a claim of it reads the retry
\* count of the failed attempt plus one, whatever the body and the error
\* text, a text that holds a retry marker included
C38_NextClaimCountsUp ==
    [][\A w \in Workers :
          (requeues(task[w], max_retries) /\ pc[w] = "returned" /\ pc'[w] = "fail_unlink") =>
              read_task(claim_rename(Unlink(fs', RunPath(task[w].name, w)), task[w].name, w),
                        task[w].name, w).retries = task[w].retries + 1]_vars

\* C38 for an error text without a retry marker
C38_PlainErrorCountsUp ==
    [][\A w \in Workers :
          (requeues(task[w], max_retries) /\ pc[w] = "returned" /\ pc'[w] = "fail_unlink"
              /\ result[w].error # ErrMarker) =>
              read_task(claim_rename(Unlink(fs', RunPath(task[w].name, w)), task[w].name, w),
                        task[w].name, w).retries = task[w].retries + 1]_vars

\* the task texts the queue holds, whatever the form of the file
Bodies(f) == {clean_content(f[p]) : p \in DOMAIN f}

\* the names retry_failed has appended to `retried` once src is unlinked
Returned == Append(rf.retried, rf.src.stem)

\* the tasks pending in f under one of the returned names
PendingByRetry(f) == {n \in Pending(f) : \E i \in 1..Len(Returned) : Returned[i] = n}

\* C39: retry_failed loses no task text, whether the destination name is
\* already pending or several failed files share it, and it returns as many
\* names as tasks are pending because of the call
C39_RetryLosesNothing ==
    [][/\ rf.pc \in {"write", "unlink"} => Bodies(fs) \subseteq Bodies(fs')
       /\ (rf.pc = "unlink" /\ rf'.pc = "off") =>
              Len(Returned) = Cardinality(PendingByRetry(fs'))]_vars

\* retry_failed loses no task text when the name it writes is free, and it
\* returns one name per file it moved
C39_FreeNameLosesNothing ==
    [][/\ (rf.pc = "write" /\ ~Exists(fs, PendPath(rf'.src.stem))) =>
              /\ Bodies(fs) \subseteq Bodies(fs')
              /\ fs'[PendPath(rf'.src.stem)] = clean_content(fs[rf'.src])
       /\ rf.pc = "unlink" => Bodies(fs) \subseteq Bodies(fs')
       /\ (rf.pc = "unlink" /\ rf'.pc = "off") =>
              Len(Returned) = Cardinality(rf_matches(fs0, rf.name))]_vars

\* the running files tagged with worker w
OwnRunning(w) == {p \in RunningFiles(fs) : p.w = w}

\* C40: a worker that has left worker_loop has no running file tagged with
\* its id: every task it claimed is under done/, under failed/ or pending again
C40_NoRunningFileAtExit ==
    \A w \in Workers : pc[w] = "exited" => OwnRunning(w) = {}

\* as long as no file operation has failed, the running files of a worker
\* that has left worker_loop are those claim_next found oversized
C40_OnlyOversizedLeft ==
    \A w \in Workers :
        (pc[w] = "exited" /\ "fault" \notin hist) =>
            \A p \in OwnRunning(w) : Oversized(fs[p])

====
